---- MODULE Spec2Model ----
(***************************************************************************)
(* Model of the vendored GraphQL execution core:                           *)
(*   graphql/core/execution/base.py  (ExecutionContext, collect_fields,    *)
(*   should_include_node, does_fragment_condition_match, ...)              *)
(*   graphql/core/type/definition.py (types, field maps, possible types)   *)
(*                                                                         *)
(* The specifications share the variables of this module; each leaves the  *)
(* variables of the other parts at their idle values:                      *)
(*   SpecCtx     - ExecutionContext.__init__ and get_operation_root_type   *)
(*   SpecInclude - should_include_node and does_fragment_condition_match   *)
(*   SpecCollect - one collect_fields pass, one selection per step         *)
(*   SpecArgs    - ExecutionContext.get_argument_values and its cache      *)
(*   SpecResult  - ExecutionResult.__init__                                *)
(*   SpecFields  - get_fields / define_field_map on one type               *)
(*   SpecLazy    - interleaved first calls of the lazy type-system getters *)
(*   SpecImpls   - object-type construction and Interface.is_possible_type *)
(*   SpecResolve - resolve_type / get_type_of on an abstract type          *)
(*   SpecWrap    - List / NonNull construction and the kind predicates     *)
(*   SpecNames   - construction of the named types                         *)
(*   graphql/core/error.py, graphql_relay/node/node.py:                    *)
(*   SpecError   - GraphQLError.locations and format_error                 *)
(*   SpecGlobalId - to_global_id / from_global_id                          *)
(***************************************************************************)
EXTENDS Integers, Sequences, FiniteSets, TLC

VARIABLES
    \* ---- ExecutionContext.__init__ / get_operation_root_type
    document_ast,        \* sequence of top-level definitions
    operation_name,      \* None or a name
    args_valid,          \* whether get_variable_values accepts the raw variables
    ctx,                 \* outcome of the construction
    root_type,           \* outcome of get_operation_root_type
    \* ---- should_include_node / does_fragment_condition_match
    directives,          \* the directive list under evaluation
    type_condition,      \* the type condition under evaluation
    cond_runtime,        \* the runtime type it is matched against
    verdict,             \* outcome of the two predicates
    \* ---- collect_fields
    selection_set,       \* the selection set the pass starts from
    fragments,           \* ctx.fragments: name -> FragmentDefinition
    runtime_type,        \* the runtime object type
    stack,               \* the active collect_fields calls, innermost last
    fields,              \* response key -> sequence of field nodes
    prev_fragment_names, \* the visited-names set
    status,              \* "running", "done" or the exception raised
    steps,               \* selections processed so far
    expanded,            \* fragment name -> times its selection set was entered
    \* ---- ExecutionContext.get_argument_values
    argument_values_cache,
    coercions,           \* (field_def, field_ast) -> times coercion ran
    last_call,           \* the last call and the value it returned
    \* ---- ExecutionResult.__init__
    result_args,         \* the constructor's arguments
    execution_result,    \* the constructed result, or the exception raised
    \* ---- get_fields / define_field_map
    type_def,            \* the type: its kind and the fields it was given
    field_map,           \* its _field_map
    thunk_calls,         \* times the fields thunk was invoked
    get_fields_log,      \* the outcome of every get_fields() call, in order
    \* ---- interleaved lazy getters
    cells,               \* the lazily set attributes of the shared types
    resolutions,         \* attribute -> times its resolution was performed
    threads,             \* every execution's position and what it observed
    \* ---- object-type construction / Interface.is_possible_type
    interface_type,      \* the Interface type
    objects,             \* the object types constructed so far
    impls,               \* Interface._impls
    cached_type_names,   \* Interface._possible_type_names
    answer,              \* the last is_possible_type call and its result
    \* ---- resolve_type
    abstract_type,       \* the Interface or Union and the value's is_type_of outcomes
    resolved,            \* outcome of resolve_type
    \* ---- List / NonNull construction, kind predicates
    gtype,               \* the type built so far
    kinds,               \* outcome of the kind predicates on it
    wrap_error,          \* the last wrapper construction and how it ended
    \* ---- construction of named types
    named_types,         \* the named types that exist
    name_args,           \* the arguments of a named type's constructor
    \* ---- GraphQLError / format_error
    graphql_error,       \* the error: its nodes, explicit source and positions
    formatted_error,     \* outcome of format_error
    \* ---- global ids
    global_id_args,      \* the type name and id given to to_global_id
    global_id,           \* the global id made of them
    resolved_global_id   \* outcome of from_global_id on it

vars == <<document_ast, operation_name, args_valid, ctx, root_type,
          directives, type_condition, cond_runtime, verdict,
          selection_set, fragments, runtime_type, stack, fields,
          prev_fragment_names, status, steps, expanded,
          argument_values_cache, coercions, last_call,
          result_args, execution_result,
          type_def, field_map, thunk_calls, get_fields_log,
          cells, resolutions, threads,
          interface_type, objects, impls, cached_type_names, answer,
          abstract_type, resolved,
          gtype, kinds, wrap_error,
          named_types, name_args,
          graphql_error, formatted_error,
          global_id_args, global_id, resolved_global_id>>

ctxVars     == <<document_ast, operation_name, args_valid, ctx, root_type>>
includeVars == <<directives, type_condition, cond_runtime, verdict>>
collectVars == <<selection_set, fragments, runtime_type, stack, fields,
                 prev_fragment_names, status, steps, expanded>>
argsVars    == <<argument_values_cache, coercions, last_call>>
resultVars  == <<result_args, execution_result>>
fieldsVars  == <<type_def, field_map, thunk_calls, get_fields_log>>
lazyVars    == <<cells, resolutions, threads>>
implsVars   == <<interface_type, objects, impls, cached_type_names, answer>>
resolveVars == <<abstract_type, resolved>>
wrapVars    == <<gtype, kinds, wrap_error>>
namesVars   == <<named_types, name_args>>
errorVars   == <<graphql_error, formatted_error>>
globalIdVars == <<global_id_args, global_id, resolved_global_id>>

\* The variables of the type-system parts and of the execution parts.
typeVars    == <<resultVars, fieldsVars, lazyVars, implsVars, resolveVars, wrapVars, namesVars>>
execVars    == <<ctxVars, includeVars, collectVars, argsVars>>
utilVars    == <<errorVars, globalIdVars>>

None == "None"

SeqUpTo(S, n) == UNION {[1..k -> S] : k \in 0..n}

(***************************************************************************)
(* Idle values of each part.                                               *)
(***************************************************************************)
IdleCtx ==
    /\ document_ast = <<>>
    /\ operation_name = None
    /\ args_valid = TRUE
    /\ ctx = [status |-> "idle"]
    /\ root_type = [status |-> "idle"]

IdleInclude ==
    /\ directives = <<>>
    /\ type_condition = None
    /\ cond_runtime = None
    /\ verdict = [status |-> "idle"]

IdleCollect ==
    /\ selection_set = <<>>
    /\ fragments = <<>>
    /\ runtime_type = None
    /\ stack = <<>>
    /\ fields = <<>>
    /\ prev_fragment_names = {}
    /\ status = "idle"
    /\ steps = 0
    /\ expanded = <<>>

IdleArgs ==
    /\ argument_values_cache = <<>>
    /\ coercions = <<>>
    /\ last_call = [status |-> "idle"]

IdleResult ==
    /\ result_args = [status |-> "idle"]
    /\ execution_result = [status |-> "idle"]

IdleFields ==
    /\ type_def = [status |-> "idle"]
    /\ field_map = [null |-> TRUE, entries |-> <<>>]
    /\ thunk_calls = 0
    /\ get_fields_log = <<>>

IdleLazy ==
    /\ cells = <<>>
    /\ resolutions = <<>>
    /\ threads = <<>>

IdleImpls ==
    /\ interface_type = [status |-> "idle"]
    /\ objects = <<>>
    /\ impls = <<>>
    /\ cached_type_names = [null |-> TRUE, names |-> {}]
    /\ answer = [status |-> "idle"]

IdleResolve ==
    /\ abstract_type = [status |-> "idle"]
    /\ resolved = [status |-> "idle"]

IdleWrap ==
    /\ gtype = [status |-> "idle"]
    /\ kinds = [status |-> "idle"]
    /\ wrap_error = [status |-> "idle"]

IdleNames ==
    /\ named_types = {}
    /\ name_args = [status |-> "idle"]

IdleTypes ==
    IdleResult /\ IdleFields /\ IdleLazy /\ IdleImpls /\ IdleResolve /\ IdleWrap /\ IdleNames

IdleExec ==
    IdleCtx /\ IdleInclude /\ IdleCollect /\ IdleArgs

IdleError ==
    /\ graphql_error = [status |-> "idle"]
    /\ formatted_error = [status |-> "idle"]

IdleGlobalId ==
    /\ global_id_args = [status |-> "idle"]
    /\ global_id = [status |-> "idle"]
    /\ resolved_global_id = [status |-> "idle"]

IdleUtil ==
    IdleError /\ IdleGlobalId

(***************************************************************************)
(* PART 1.  ExecutionContext.__init__ and get_operation_root_type          *)
(***************************************************************************)
MaxDefs == 3

OperationNames == {"Q", "R"}
FragmentNames  == {"F", "G"}

\* A top-level definition.  A node's identity is its position in the document.
OperationDefinitions ==
    { [kind |-> "OperationDefinition", name |-> None, operation |-> "query"],
      [kind |-> "OperationDefinition", name |-> "Q",  operation |-> "query"],
      [kind |-> "OperationDefinition", name |-> "Q",  operation |-> "mutation"],
      [kind |-> "OperationDefinition", name |-> "R",  operation |-> "subscription"],
      [kind |-> "OperationDefinition", name |-> "R",  operation |-> "unknown"] }

FragmentDefinitions ==
    { [kind |-> "FragmentDefinition", name |-> n, operation |-> None] : n \in FragmentNames }

OtherDefinitions ==
    { [kind |-> "ObjectTypeDefinition", name |-> None, operation |-> None] }

Definitions == OperationDefinitions \cup FragmentDefinitions \cup OtherDefinitions

NoNode == 0

GraphQLError(message, node) ==
    [status |-> "GraphQLError", message |-> message, node |-> node,
     operation |-> NoNode, fragments |-> [n \in {} |-> NoNode]]

\* The state of the loop over document_ast.definitions.
ScanStart == [error |-> None, node |-> NoNode, operation |-> NoNode,
              fragments |-> [n \in {} |-> NoNode]]

\* Variant: the second operation of an unnamed request replaces the first.
ScanDefinition_LastOperationWins(acc, defs, name, i) ==
    LET definition == defs[i] IN
    IF definition.kind = "OperationDefinition" THEN
        IF name = None \/ (definition.name # None /\ definition.name = name) THEN
            [acc EXCEPT !.operation = i]
        ELSE acc
    ELSE IF definition.kind = "FragmentDefinition" THEN
        [acc EXCEPT !.fragments =
            [n \in DOMAIN acc.fragments \cup {definition.name} |->
                IF n = definition.name THEN i ELSE acc.fragments[n]]]
    ELSE
        [acc EXCEPT !.error = "GraphQL cannot execute a request containing a definition.",
                    !.node = i]

\* Variant: any named operation is selected, whatever its name.
ScanDefinition_AnyNamedOperation(acc, defs, name, i) ==
    LET definition == defs[i] IN
    IF definition.kind = "OperationDefinition" THEN
        IF name = None /\ acc.operation # NoNode THEN
            [acc EXCEPT !.error = "Must provide operation name if query contains multiple operations."]
        ELSE IF name = None \/ definition.name # None THEN
            [acc EXCEPT !.operation = i]
        ELSE acc
    ELSE IF definition.kind = "FragmentDefinition" THEN
        [acc EXCEPT !.fragments =
            [n \in DOMAIN acc.fragments \cup {definition.name} |->
                IF n = definition.name THEN i ELSE acc.fragments[n]]]
    ELSE
        [acc EXCEPT !.error = "GraphQL cannot execute a request containing a definition.",
                    !.node = i]

\* Variant: a definition of an unknown kind is passed over.
ScanDefinition_IgnoreOtherKinds(acc, defs, name, i) ==
    LET definition == defs[i] IN
    IF definition.kind = "OperationDefinition" THEN
        IF name = None /\ acc.operation # NoNode THEN
            [acc EXCEPT !.error = "Must provide operation name if query contains multiple operations."]
        ELSE IF name = None \/ (definition.name # None /\ definition.name = name) THEN
            [acc EXCEPT !.operation = i]
        ELSE acc
    ELSE IF definition.kind = "FragmentDefinition" THEN
        [acc EXCEPT !.fragments =
            [n \in DOMAIN acc.fragments \cup {definition.name} |->
                IF n = definition.name THEN i ELSE acc.fragments[n]]]
    ELSE acc

ScanDefinition(acc, defs, name, i) ==
    LET definition == defs[i] IN
    IF definition.kind = "OperationDefinition" THEN
        IF name = None /\ acc.operation # NoNode THEN
            [acc EXCEPT !.error = "Must provide operation name if query contains multiple operations."]
        ELSE IF name = None \/ (definition.name # None /\ definition.name = name) THEN
            [acc EXCEPT !.operation = i]
        ELSE acc
    ELSE IF definition.kind = "FragmentDefinition" THEN
        [acc EXCEPT !.fragments =
            [n \in DOMAIN acc.fragments \cup {definition.name} |->
                IF n = definition.name THEN i ELSE acc.fragments[n]]]
    ELSE
        [acc EXCEPT !.error = "GraphQL cannot execute a request containing a definition.",
                    !.node = i]

RECURSIVE ScanDefinitions(_, _, _, _)
ScanDefinitions(acc, defs, name, i) ==
    IF i > Len(defs) \/ acc.error # None THEN acc
    ELSE ScanDefinitions(ScanDefinition(acc, defs, name, i), defs, name, i + 1)

\* get_variable_values: accepts or rejects the raw variables of the request.
get_variable_values(valid) ==
    IF valid THEN "ok" ELSE "GraphQLError"

NewExecutionContext(defs, name, valid) ==
    LET scan == ScanDefinitions(ScanStart, defs, name, 1) IN
    IF scan.error # None THEN GraphQLError(scan.error, scan.node)
    ELSE IF scan.operation = NoNode THEN
        IF name # None THEN GraphQLError("Unknown operation named.", NoNode)
        ELSE GraphQLError("Must provide an operation.", NoNode)
    ELSE IF get_variable_values(valid) # "ok" THEN
        GraphQLError("Variable coercion failed.", NoNode)
    ELSE [status |-> "ok", message |-> None, node |-> NoNode,
          operation |-> scan.operation, fragments |-> scan.fragments]

\* A schema: its three roots, the last two optional.
Schemas == [query : {"QueryRoot"}, mutation : {None, "MutationRoot"},
            subscription : {None, "SubscriptionRoot"}]

\* Variant: the mutation and subscription roots are returned unchecked.
get_operation_root_type_Unchecked(schema, operation, node) ==
    LET op == operation.operation IN
    IF op = "query" THEN
        [status |-> "ok", type |-> schema.query, message |-> None, node |-> NoNode, schema |-> schema]
    ELSE IF op = "mutation" THEN
        [status |-> "ok", type |-> schema.mutation, message |-> None, node |-> NoNode, schema |-> schema]
    ELSE IF op = "subscription" THEN
        [status |-> "ok", type |-> schema.subscription, message |-> None, node |-> NoNode, schema |-> schema]
    ELSE
        [status |-> "GraphQLError", type |-> None,
         message |-> "Can only execute queries, mutations and subscriptions", node |-> node, schema |-> schema]

get_operation_root_type(schema, operation, node) ==
    LET op == operation.operation IN
    IF op = "query" THEN
        [status |-> "ok", type |-> schema.query, message |-> None, node |-> NoNode, schema |-> schema]
    ELSE IF op = "mutation" THEN
        IF schema.mutation = None THEN
            [status |-> "GraphQLError", type |-> None,
             message |-> "Schema is not configured for mutations", node |-> node, schema |-> schema]
        ELSE [status |-> "ok", type |-> schema.mutation, message |-> None, node |-> NoNode, schema |-> schema]
    ELSE IF op = "subscription" THEN
        IF schema.subscription = None THEN
            [status |-> "GraphQLError", type |-> None,
             message |-> "Schema is not configured for subscriptions", node |-> node, schema |-> schema]
        ELSE [status |-> "ok", type |-> schema.subscription, message |-> None, node |-> NoNode, schema |-> schema]
    ELSE
        [status |-> "GraphQLError", type |-> None,
         message |-> "Can only execute queries, mutations and subscriptions", node |-> node, schema |-> schema]

InitCtx ==
    /\ document_ast \in SeqUpTo(Definitions, MaxDefs)
    /\ operation_name \in {None} \cup OperationNames
    /\ args_valid \in BOOLEAN
    /\ ctx = [status |-> "idle"]
    /\ root_type = [status |-> "idle"]
    /\ IdleInclude /\ IdleCollect /\ IdleArgs /\ IdleTypes /\ IdleUtil

Construct ==
    /\ ctx.status = "idle"
    /\ ctx' = NewExecutionContext(document_ast, operation_name, args_valid)
    /\ UNCHANGED <<document_ast, operation_name, args_valid, root_type>>
    /\ UNCHANGED <<includeVars, collectVars, argsVars, typeVars, utilVars>>

GetOperationRootType ==
    /\ ctx.status = "ok"
    /\ root_type.status = "idle"
    /\ \E schema \in Schemas :
         root_type' = get_operation_root_type(schema, document_ast[ctx.operation], ctx.operation)
    /\ UNCHANGED <<document_ast, operation_name, args_valid, ctx>>
    /\ UNCHANGED <<includeVars, collectVars, argsVars, typeVars, utilVars>>

NextCtx == Construct \/ GetOperationRootType

SpecCtx == InitCtx /\ [][NextCtx]_vars

(***************************************************************************)
(* Claims about ExecutionContext.__init__ and get_operation_root_type      *)
(***************************************************************************)
Constructed == ctx.status # "idle"

OperationIndexes(defs) == {i \in DOMAIN defs : defs[i].kind = "OperationDefinition"}
FragmentIndexes(defs)  == {i \in DOMAIN defs : defs[i].kind = "FragmentDefinition"}
OtherIndexes(defs)     == DOMAIN defs \ (OperationIndexes(defs) \cup FragmentIndexes(defs))
NamedIndexes(defs, n)  == {i \in OperationIndexes(defs) : defs[i].name = n}

Min(S) == CHOOSE x \in S : \A y \in S : x <= y
Max(S) == CHOOSE x \in S : \A y \in S : x >= y

MsgMultiple == "Must provide operation name if query contains multiple operations."
MsgOther    == "GraphQL cannot execute a request containing a definition."
MsgUnknown  == "Unknown operation named."
MsgNoOp     == "Must provide an operation."

\* C1: without an operation name, a document holding more than one
\* OperationDefinition (named or not) makes construction fail with a
\* GraphQLError, and no context (no selected operation) is produced.
C1_MultipleOperationsNeedName ==
    (Constructed /\ operation_name = None
        /\ Cardinality(OperationIndexes(document_ast)) > 1)
    => (ctx.status = "GraphQLError" /\ ctx.operation = NoNode)

C1_Witness ==
    /\ Constructed /\ operation_name = None
    /\ Cardinality(OperationIndexes(document_ast)) > 1
    /\ OtherIndexes(document_ast) = {}
    /\ ctx.status = "GraphQLError" /\ ctx.message = MsgMultiple

\* C2 (as stated): with an operation name, the selected operation is an
\* OperationDefinition of that name wherever it stands; if no operation has
\* that name construction fails with 'Unknown operation named', and if the
\* document has no operation at all it fails with 'Must provide an operation.'.
C2_AsStated ==
    (Constructed /\ operation_name # None) =>
        /\ ctx.status = "ok" =>
              /\ ctx.operation \in OperationIndexes(document_ast)
              /\ document_ast[ctx.operation].name = operation_name
        /\ (NamedIndexes(document_ast, operation_name) = {}
              /\ OperationIndexes(document_ast) # {}) =>
              (ctx.status = "GraphQLError" /\ ctx.message = MsgUnknown)
        /\ OperationIndexes(document_ast) = {} =>
              (ctx.status = "GraphQLError" /\ ctx.message = MsgNoOp)

\* C2 (amended): with an operation name, the selected operation of a
\* constructed context is the last OperationDefinition of that name; if no
\* operation has that name - also when the document has no operation at all -
\* construction fails, with 'Unknown operation named' unless the document
\* holds a non-executable definition; 'Must provide an operation.' is raised
\* only for a request without operation name and without operation.
C2_NamedOperationSelected ==
    /\ (Constructed /\ operation_name # None) =>
        /\ ctx.status = "ok" =>
              /\ ctx.operation \in OperationIndexes(document_ast)
              /\ document_ast[ctx.operation].name = operation_name
              /\ ctx.operation = Max(NamedIndexes(document_ast, operation_name))
        /\ NamedIndexes(document_ast, operation_name) = {} =>
              /\ ctx.status = "GraphQLError"
              /\ ctx.message = IF OtherIndexes(document_ast) = {} THEN MsgUnknown ELSE MsgOther
    /\ (Constructed /\ ctx.status = "GraphQLError") =>
          (ctx.message = MsgNoOp <=>
              /\ operation_name = None
              /\ OperationIndexes(document_ast) = {}
              /\ OtherIndexes(document_ast) = {})

C2_Witness ==
    /\ Constructed /\ operation_name # None
    /\ OperationIndexes(document_ast) = {}
    /\ ctx.status = "GraphQLError" /\ ctx.message = MsgUnknown

\* C3 (as stated): a document holding a definition that is neither an
\* operation nor a fragment fails with a GraphQLError attributed to that
\* definition, and every FragmentDefinition seen is in the fragment table
\* under its name.
C3_AsStated ==
    Constructed =>
        /\ OtherIndexes(document_ast) # {} =>
              /\ ctx.status = "GraphQLError"
              /\ ctx.node \in OtherIndexes(document_ast)
        /\ ctx.status = "ok" =>
              \A i \in FragmentIndexes(document_ast) :
                  /\ document_ast[i].name \in DOMAIN ctx.fragments
                  /\ ctx.fragments[document_ast[i].name] = i

\* Two operations of an unnamed request stand before definition i.
SecondOperationBefore(defs, name, i) ==
    name = None /\ Cardinality({j \in OperationIndexes(defs) : j < i}) > 1

\* C3 (amended): such a document fails with a GraphQLError; the error is
\* attributed to the first such definition unless the scan already failed on
\* a second operation of an unnamed request; in a constructed context every
\* fragment name seen maps to the last FragmentDefinition of that name.
C3_OtherDefinitionsFatal ==
    Constructed =>
        /\ OtherIndexes(document_ast) # {} =>
              LET first == Min(OtherIndexes(document_ast)) IN
              /\ ctx.status = "GraphQLError"
              /\ IF SecondOperationBefore(document_ast, operation_name, first)
                 THEN ctx.message = MsgMultiple /\ ctx.node = NoNode
                 ELSE ctx.message = MsgOther /\ ctx.node = first
        /\ ctx.status = "ok" =>
              /\ DOMAIN ctx.fragments =
                    {document_ast[i].name : i \in FragmentIndexes(document_ast)}
              /\ \A n \in DOMAIN ctx.fragments :
                    ctx.fragments[n] =
                        Max({i \in FragmentIndexes(document_ast) : document_ast[i].name = n})

C3_Witness ==
    /\ Constructed
    /\ OtherIndexes(document_ast) # {}
    /\ OperationIndexes(document_ast) # {}
    /\ ctx.status = "GraphQLError" /\ ctx.message = MsgOther
    /\ ctx.node = Min(OtherIndexes(document_ast))

\* C4: get_operation_root_type returns the query root for a query, the
\* mutation root for a mutation and the subscription root for a
\* subscription; it fails with a GraphQLError attributed to the operation
\* when the schema has no mutation or subscription root, and for any other
\* operation kind.
C4_OperationRootType ==
    root_type.status # "idle" =>
        LET op     == document_ast[ctx.operation].operation
            schema == root_type.schema
            Fails  == root_type.status = "GraphQLError" /\ root_type.node = ctx.operation
            Returns(t) == root_type.status = "ok" /\ root_type.type = t
        IN  CASE op = "query" -> Returns(schema.query)
              [] op = "mutation" ->
                    IF schema.mutation = None THEN Fails ELSE Returns(schema.mutation)
              [] op = "subscription" ->
                    IF schema.subscription = None THEN Fails ELSE Returns(schema.subscription)
              [] OTHER -> Fails

C4_Witness ==
    /\ root_type.status = "GraphQLError"
    /\ document_ast[ctx.operation].operation = "mutation"
    /\ root_type.schema.mutation = None
    /\ root_type.node = ctx.operation

(***************************************************************************)
(* PART 2.  should_include_node and does_fragment_condition_match          *)
(***************************************************************************)
MaxDirs == 3

\* A directive node: its name and what get_argument_values yields for `if`
\* ("absent": the coerced argument mapping has no entry for it).
Directives ==
    [name : {"skip", "include"}, ifArg : {"true", "false", "absent"}]
        \cup {[name |-> "deprecated", ifArg |-> "absent"]}

Directive(n, v) == [name |-> n, ifArg |-> v]

\* The coerced arguments of a directive, and Python's truth value of args.get('if').
DirectiveArgs(directive) ==
    IF directive.ifArg = "absent" THEN [k \in {} |-> FALSE]
    ELSE [k \in {"if"} |-> directive.ifArg = "true"]

ArgsGetIf(args) == "if" \in DOMAIN args /\ args["if"]

\* The first directive of the list with the given name (0: none).
FirstDirective(dirs, n) ==
    LET hits == {i \in DOMAIN dirs : dirs[i].name = n} IN
    IF hits = {} THEN 0 ELSE CHOOSE i \in hits : \A j \in hits : i <= j

\* Variant: @include is consulted also when @skip is present.
should_include_node_BothConsulted(dirs) ==
    IF dirs # <<>> THEN
        LET skip_ast    == FirstDirective(dirs, "skip")
            include_ast == FirstDirective(dirs, "include")
        IN  /\ skip_ast # 0 => ~ArgsGetIf(DirectiveArgs(dirs[skip_ast]))
            /\ include_ast # 0 => ArgsGetIf(DirectiveArgs(dirs[include_ast]))
    ELSE TRUE

\* Variant: @include is consulted before @skip.
should_include_node_IncludeFirst(dirs) ==
    IF dirs # <<>> THEN
        LET include_ast == FirstDirective(dirs, "include")
            skip_ast    == FirstDirective(dirs, "skip")
        IN  IF include_ast # 0 THEN ArgsGetIf(DirectiveArgs(dirs[include_ast]))
            ELSE IF skip_ast # 0 THEN ~ArgsGetIf(DirectiveArgs(dirs[skip_ast]))
            ELSE TRUE
    ELSE TRUE

should_include_node(dirs) ==
    IF dirs # <<>> THEN
        LET skip_ast    == FirstDirective(dirs, "skip")
            include_ast == FirstDirective(dirs, "include")
        IN  IF skip_ast # 0 THEN ~ArgsGetIf(DirectiveArgs(dirs[skip_ast]))
            ELSE IF include_ast # 0 THEN ArgsGetIf(DirectiveArgs(dirs[include_ast]))
            ELSE TRUE
    ELSE TRUE

\* The schema the selections are collected against.
ObjectTypes    == {"Obj", "Other"}
InterfaceTypes == {"Iface"}
UnionTypes     == {"Uni"}
TypeNames      == ObjectTypes \cup InterfaceTypes \cup UnionTypes

\* GraphQLInterfaceType._impls / GraphQLUnionType._types, in declaration order.
get_possible_types(abstract) ==
    IF abstract = "Iface" THEN <<"Obj">> ELSE <<"Other">>

is_possible_type(abstract, type) ==
    LET possible == get_possible_types(abstract)
        possible_type_names == {possible[i] : i \in DOMAIN possible}
    IN  type \in possible_type_names

\* A type condition names a type; a name the schema does not know yields None.
TypeConditions == {None, "Obj", "Other", "Iface", "Uni", "Absent"}

type_from_ast(type_condition_ast) ==
    IF type_condition_ast \in TypeNames THEN type_condition_ast ELSE None

\* Variant: an abstract type condition always matches.
does_fragment_condition_match_AbstractAlways(type_condition_ast, type) ==
    IF type_condition_ast = None THEN TRUE
    ELSE LET conditional_type == type_from_ast(type_condition_ast) IN
         IF conditional_type = type THEN TRUE
         ELSE IF conditional_type \in InterfaceTypes \cup UnionTypes THEN TRUE
         ELSE FALSE

does_fragment_condition_match(type_condition_ast, type) ==
    IF type_condition_ast = None THEN TRUE
    ELSE LET conditional_type == type_from_ast(type_condition_ast) IN
         IF conditional_type = type THEN TRUE
         ELSE IF conditional_type \in InterfaceTypes \cup UnionTypes
              THEN is_possible_type(conditional_type, type)
         ELSE FALSE

InitInclude ==
    /\ \/ /\ directives \in SeqUpTo(Directives, MaxDirs)
          /\ type_condition = None
          /\ cond_runtime = "Obj"
       \/ /\ directives = <<>>
          /\ type_condition \in TypeConditions
          /\ cond_runtime \in ObjectTypes
    /\ verdict = [status |-> "idle"]
    /\ IdleCtx /\ IdleCollect /\ IdleArgs /\ IdleTypes /\ IdleUtil

EvalShouldInclude ==
    /\ verdict.status = "idle"
    /\ verdict' = [status |-> "should_include_node", value |-> should_include_node(directives)]
    /\ UNCHANGED <<directives, type_condition, cond_runtime>>
    /\ UNCHANGED <<ctxVars, collectVars, argsVars, typeVars, utilVars>>

EvalConditionMatch ==
    /\ verdict.status = "idle"
    /\ verdict' = [status |-> "does_fragment_condition_match",
                   value |-> does_fragment_condition_match(type_condition, cond_runtime)]
    /\ UNCHANGED <<directives, type_condition, cond_runtime>>
    /\ UNCHANGED <<ctxVars, collectVars, argsVars, typeVars, utilVars>>

NextInclude == EvalShouldInclude \/ EvalConditionMatch

SpecInclude == InitInclude /\ [][NextInclude]_vars

(***************************************************************************)
(* Claims about should_include_node                                        *)
(***************************************************************************)
SkipTrue    == Directive("skip", "true")
IncludeTrue == Directive("include", "true")

Carries(dirs, d) == \E i \in DOMAIN dirs : dirs[i] = d

\* C5 (as stated): a selection carrying @skip(if: true) is always excluded,
\* also when @include(if: true) is on the same selection, in either order.
C5_AsStated ==
    (verdict.status = "should_include_node" /\ Carries(directives, SkipTrue))
    => verdict.value = FALSE

\* C5 (amended): a selection whose first @skip directive has if=true is
\* always excluded, also when @include(if: true) is on the same selection,
\* for every order of the directives.
C5_FirstSkipTrueExcludes ==
    (verdict.status = "should_include_node"
        /\ FirstDirective(directives, "skip") # 0
        /\ directives[FirstDirective(directives, "skip")] = SkipTrue)
    => verdict.value = FALSE

C5_Witness ==
    /\ verdict.status = "should_include_node"
    /\ Len(directives) >= 2
    /\ directives[1] = IncludeTrue
    /\ directives[2] = SkipTrue
    /\ verdict.value = FALSE

\* C23: when a selection carries at least one @skip, the first @skip alone
\* decides (included iff its `if` is not true: false, or without a value) and
\* no @include of the selection is consulted; only without @skip the first
\* @include decides (included iff its `if` is true); with neither directive
\* the selection is included.
C23_SkipDecidesBeforeInclude ==
    verdict.status = "should_include_node" =>
        LET first_skip    == FirstDirective(directives, "skip")
            first_include == FirstDirective(directives, "include")
        IN  IF first_skip # 0
            THEN verdict.value = (directives[first_skip].ifArg # "true")
            ELSE IF first_include # 0
            THEN verdict.value = (directives[first_include].ifArg = "true")
            ELSE verdict.value = TRUE

\* @include(if: false) before @skip(if: false): included, the @include was
\* not consulted.
C23_Witness ==
    /\ verdict.status = "should_include_node"
    /\ Len(directives) = 2
    /\ directives[1] = Directive("include", "false")
    /\ directives[2] = Directive("skip", "false")
    /\ verdict.value = TRUE

(***************************************************************************)
(* PART 3.  collect_fields, one selection per step                         *)
(***************************************************************************)
MaxNodes == 3

FieldNames == {"a", "b"}

Field(name, alias, dirs) ==
    [kind |-> "Field", name |-> name, alias |-> alias, directives |-> dirs,
     type_condition |-> None, selections |-> <<>>]

InlineFragment(tc, dirs, sels) ==
    [kind |-> "InlineFragment", name |-> None, alias |-> None, directives |-> dirs,
     type_condition |-> tc, selections |-> sels]

FragmentSpread(name, dirs) ==
    [kind |-> "FragmentSpread", name |-> name, alias |-> None, directives |-> dirs,
     type_condition |-> None, selections |-> <<>>]

FragmentDefinition(tc, dirs, sels) ==
    [type_condition |-> tc, directives |-> dirs, selections |-> sels]

\* The selections without sub-selections: fields and fragment spreads.
\* "M" names a fragment no table defines.
LeafSelections ==
    { Field("a", None, <<>>), Field("b", "a", <<>>), Field("b", None, <<>>),
      Field("a", None, <<Directive("skip", "true")>>),
      FragmentSpread("F", <<>>), FragmentSpread("G", <<>>), FragmentSpread("M", <<>>),
      FragmentSpread("F", <<Directive("skip", "true")>>) }

\* Type condition and directives of the inline fragments.
InlineHeads ==
    { <<None, <<>>>>, <<"Iface", <<>>>>, <<"Other", <<>>>>,
      <<None, <<Directive("skip", "true")>>>> }

\* The selection sets of exactly n nodes.
RECURSIVE SelectionTrees(_), SelectionSets(_)
SelectionTrees(n) ==
    IF n = 1 THEN LeafSelections
    ELSE { InlineFragment(h[1], h[2], sels) : h \in InlineHeads, sels \in SelectionSets(n - 1) }

SelectionSets(n) ==
    IF n = 0 THEN {<<>>}
    ELSE UNION { { <<t>> \o rest : t \in SelectionTrees(k), rest \in SelectionSets(n - k) }
                 : k \in 1..n }

\* The fragment tables: plain, self-cyclic, mutually cyclic, excluded by the
\* definition's own directive, guarded by type conditions, spreading "M".
FragmentTables ==
    { [n \in FragmentNames |->
         IF n = "F" THEN FragmentDefinition(None, <<>>, <<Field("a", None, <<>>)>>)
         ELSE FragmentDefinition(None, <<>>, <<Field("b", "a", <<>>)>>)],
      [n \in FragmentNames |->
         IF n = "F" THEN FragmentDefinition(None, <<>>, <<FragmentSpread("F", <<>>)>>)
         ELSE FragmentDefinition(None, <<>>, <<Field("a", None, <<>>)>>)],
      [n \in FragmentNames |->
         IF n = "F" THEN FragmentDefinition(None, <<>>,
                            <<Field("a", None, <<>>), FragmentSpread("G", <<>>)>>)
         ELSE FragmentDefinition(None, <<>>,
                            <<Field("b", "a", <<>>), FragmentSpread("F", <<>>)>>)],
      [n \in FragmentNames |->
         IF n = "F" THEN FragmentDefinition(None, <<Directive("skip", "true")>>,
                            <<Field("a", None, <<>>)>>)
         ELSE FragmentDefinition(None, <<>>, <<FragmentSpread("F", <<>>)>>)],
      [n \in FragmentNames |->
         IF n = "F" THEN FragmentDefinition("Other", <<>>, <<Field("a", None, <<>>)>>)
         ELSE FragmentDefinition("Iface", <<>>,
                            <<Field("a", None, <<>>), FragmentSpread("F", <<>>)>>)],
      [n \in FragmentNames |->
         IF n = "F" THEN FragmentDefinition(None, <<>>, <<FragmentSpread("M", <<>>)>>)
         ELSE FragmentDefinition(None, <<>>, <<Field("a", None, <<>>)>>)] }

\* A node's identity: the definition that owns it ("op": the selection set
\* the pass starts from) and its path of positions below that definition.
NodeId(owner, path) == [owner |-> owner, path |-> path]

RootSelections(owner) ==
    IF owner = "op" THEN selection_set ELSE fragments[owner].selections

RECURSIVE Descend(_, _)
Descend(sels, path) ==
    IF Len(path) = 1 THEN sels[path[1]]
    ELSE Descend(sels[path[1]].selections, Tail(path))

NodeAt(id) == Descend(RootSelections(id.owner), id.path)

get_field_entry_key_NameOnly(node) == node.name

get_field_entry_key(node) ==
    IF node.alias # None THEN node.alias ELSE node.name

\* fields[name].append(selection) on a defaultdict(list)
AppendField_Overwrite(fs, name, id) == [fs EXCEPT ![name] = <<id>>]

AppendField(fs, name, id) == [fs EXCEPT ![name] = Append(@, id)]

\* frag_name in prev_fragment_names
AlreadyVisited_Never(frag_name, prev) == FALSE

AlreadyVisited(frag_name, prev) == frag_name \in prev

\* ctx.fragments.get(frag_name) is not None
FragmentDefined(frag_name) == frag_name \in DOMAIN fragments

InitCollect ==
    /\ selection_set \in UNION {SelectionSets(n) : n \in 0..MaxNodes}
    /\ fragments \in FragmentTables
    /\ runtime_type \in ObjectTypes
    /\ stack = <<[owner |-> "op", path |-> <<>>, selections |-> selection_set, i |-> 1]>>
    /\ fields = [k \in FieldNames |-> <<>>]
    /\ prev_fragment_names = {}
    /\ status = "running"
    /\ steps = 0
    /\ expanded = [n \in FragmentNames |-> 0]
    /\ IdleCtx /\ IdleInclude /\ IdleArgs /\ IdleTypes /\ IdleUtil

\* The innermost collect_fields call and the selection its loop stands at.
Frame     == stack[Len(stack)]
InLoop    == status = "running" /\ stack # <<>> /\ Frame.i <= Len(Frame.selections)
Selection == Frame.selections[Frame.i]
SelectionId == NodeId(Frame.owner, Frame.path \o <<Frame.i>>)

\* `continue`: the loop of the innermost call moves to its next selection.
Advanced == [stack EXCEPT ![Len(stack)].i = @ + 1]

\* A recursive call on a sub-selection set.
Called(owner, path, sels) ==
    Append(Advanced, [owner |-> owner, path |-> path, selections |-> sels, i |-> 1])

CollectField ==
    /\ InLoop
    /\ Selection.kind = "Field"
    /\ IF ~should_include_node(Selection.directives)
       THEN fields' = fields
       ELSE fields' = AppendField(fields, get_field_entry_key(Selection), SelectionId)
    /\ stack' = Advanced
    /\ steps' = steps + 1
    /\ UNCHANGED <<selection_set, fragments, runtime_type, prev_fragment_names, status, expanded>>
    /\ UNCHANGED <<ctxVars, includeVars, argsVars, typeVars, utilVars>>

CollectInlineFragment ==
    /\ InLoop
    /\ Selection.kind = "InlineFragment"
    /\ IF \/ ~should_include_node(Selection.directives)
          \/ ~does_fragment_condition_match(Selection.type_condition, runtime_type)
       THEN stack' = Advanced
       ELSE stack' = Called(Frame.owner, Frame.path \o <<Frame.i>>, Selection.selections)
    /\ steps' = steps + 1
    /\ UNCHANGED <<selection_set, fragments, runtime_type, fields, prev_fragment_names,
                   status, expanded>>
    /\ UNCHANGED <<ctxVars, includeVars, argsVars, typeVars, utilVars>>

\* Variant: the name is marked visited only when the fragment is entered.
CollectFragmentSpread_MarkWhenEntered ==
    /\ InLoop
    /\ Selection.kind = "FragmentSpread"
    /\ steps' = steps + 1
    /\ LET frag_name == Selection.name
           fragment  == fragments[frag_name]
       IN  IF \/ AlreadyVisited(frag_name, prev_fragment_names)
              \/ ~should_include_node(Selection.directives)
           THEN /\ stack' = Advanced
                /\ UNCHANGED <<prev_fragment_names, status, expanded>>
           ELSE /\ prev_fragment_names' =
                      IF FragmentDefined(frag_name)
                         /\ should_include_node(fragment.directives)
                         /\ does_fragment_condition_match(fragment.type_condition,
                                                          runtime_type)
                      THEN prev_fragment_names \cup {frag_name}
                      ELSE prev_fragment_names
                /\ IF ~FragmentDefined(frag_name)
                   THEN \* fragment.directives on None
                        /\ status' = "AttributeError"
                        /\ UNCHANGED <<stack, expanded>>
                   ELSE IF \/ ~should_include_node(fragment.directives)
                           \/ ~does_fragment_condition_match(fragment.type_condition, runtime_type)
                   THEN /\ stack' = Advanced
                        /\ UNCHANGED <<status, expanded>>
                   ELSE /\ stack' = Called(frag_name, <<>>, fragment.selections)
                        /\ expanded' = [expanded EXCEPT ![frag_name] = @ + 1]
                        /\ UNCHANGED status
    /\ UNCHANGED <<selection_set, fragments, runtime_type, fields>>
    /\ UNCHANGED <<ctxVars, includeVars, argsVars, typeVars, utilVars>>

CollectFragmentSpread ==
    /\ InLoop
    /\ Selection.kind = "FragmentSpread"
    /\ steps' = steps + 1
    /\ LET frag_name == Selection.name
           fragment  == fragments[frag_name]
       IN  IF \/ AlreadyVisited(frag_name, prev_fragment_names)
              \/ ~should_include_node(Selection.directives)
           THEN /\ stack' = Advanced
                /\ UNCHANGED <<prev_fragment_names, status, expanded>>
           ELSE /\ prev_fragment_names' = prev_fragment_names \cup {frag_name}
                /\ IF ~FragmentDefined(frag_name)
                   THEN \* fragment.directives on None
                        /\ status' = "AttributeError"
                        /\ UNCHANGED <<stack, expanded>>
                   ELSE IF \/ ~should_include_node(fragment.directives)
                           \/ ~does_fragment_condition_match(fragment.type_condition, runtime_type)
                   THEN /\ stack' = Advanced
                        /\ UNCHANGED <<status, expanded>>
                   ELSE /\ stack' = Called(frag_name, <<>>, fragment.selections)
                        /\ expanded' = [expanded EXCEPT ![frag_name] = @ + 1]
                        /\ UNCHANGED status
    /\ UNCHANGED <<selection_set, fragments, runtime_type, fields>>
    /\ UNCHANGED <<ctxVars, includeVars, argsVars, typeVars, utilVars>>

\* `return fields`: the innermost call ends; the pass ends with the outermost.
CollectReturn ==
    /\ status = "running"
    /\ stack # <<>>
    /\ Frame.i > Len(Frame.selections)
    /\ stack' = SubSeq(stack, 1, Len(stack) - 1)
    /\ status' = IF Len(stack) = 1 THEN "done" ELSE "running"
    /\ UNCHANGED <<selection_set, fragments, runtime_type, fields, prev_fragment_names,
                   steps, expanded>>
    /\ UNCHANGED <<ctxVars, includeVars, argsVars, typeVars, utilVars>>

NextCollect ==
    CollectField \/ CollectInlineFragment \/ CollectFragmentSpread \/ CollectReturn

SpecCollect == InitCollect /\ [][NextCollect]_vars

(***************************************************************************)
(* Claims about collect_fields                                             *)
(***************************************************************************)
\* The paths of all nodes below a selection set.
RECURSIVE Paths(_)
Paths(sels) ==
    UNION { {<<i>>} \cup { <<i>> \o p : p \in Paths(sels[i].selections) } : i \in DOMAIN sels }

\* Document order of two paths below the same definition.
RECURSIVE PathBefore(_, _)
PathBefore(p, q) ==
    IF p = <<>> THEN q # <<>>
    ELSE IF q = <<>> THEN FALSE
    ELSE IF p[1] # q[1] THEN p[1] < q[1]
    ELSE PathBefore(Tail(p), Tail(q))

Collected(id) == \E k \in DOMAIN fields : \E j \in DOMAIN fields[k] : fields[k][j] = id

ResponseKey(node) == IF node.alias = None THEN node.name ELSE node.alias

\* The type condition of a fragment admits the runtime type.
TypeConditionHolds(tc) ==
    \/ tc = None
    \/ tc = runtime_type
    \/ /\ tc \in InterfaceTypes \cup UnionTypes
       /\ \E i \in DOMAIN get_possible_types(tc) : get_possible_types(tc)[i] = runtime_type

Passes(node) ==
    should_include_node(node.directives) /\ TypeConditionHolds(node.type_condition)

\* Reference order: the included field nodes in depth-first document order,
\* each named fragment entered at its first admitted spread only.
RECURSIVE DepthFirst(_, _, _, _, _)
DepthFirst(sels, owner, path, i, acc) ==
    IF i > Len(sels) THEN acc
    ELSE
      LET sel == sels[i]
          included == should_include_node(sel.directives)
          after ==
            CASE sel.kind = "Field" ->
                   IF included
                   THEN [acc EXCEPT !.out = Append(@, NodeId(owner, path \o <<i>>))]
                   ELSE acc
              [] sel.kind = "InlineFragment" ->
                   IF Passes(sel)
                   THEN DepthFirst(sel.selections, owner, path \o <<i>>, 1, acc)
                   ELSE acc
              [] OTHER ->
                   IF sel.name \in acc.seen \/ ~included THEN acc
                   ELSE LET marked == [acc EXCEPT !.seen = @ \cup {sel.name}] IN
                        IF sel.name \in DOMAIN fragments /\ Passes(fragments[sel.name])
                        THEN DepthFirst(fragments[sel.name].selections, sel.name, <<>>, 1, marked)
                        ELSE marked
      IN DepthFirst(sels, owner, path, i + 1, after)

DocumentOrder == DepthFirst(selection_set, "op", <<>>, 1, [seen |-> {}, out |-> <<>>]).out

\* C6: every Field selection that passes its directives is appended under
\* its response key (alias if present, else name); the entries of a key are
\* distinct field nodes of that key, in document order, and after the pass
\* each key holds exactly the included field nodes of that key in
\* depth-first document order (overlapping selections are merged).
C6_FieldsMergedUnderResponseKey ==
    /\ \A k \in DOMAIN fields :
          /\ \A j \in DOMAIN fields[k] :
                LET node == NodeAt(fields[k][j]) IN
                /\ node.kind = "Field"
                /\ ResponseKey(node) = k
                /\ should_include_node(node.directives)
          /\ \A i, j \in DOMAIN fields[k] :
                i < j =>
                   /\ fields[k][i] # fields[k][j]
                   /\ fields[k][i].owner = fields[k][j].owner
                         => PathBefore(fields[k][i].path, fields[k][j].path)
    /\ status = "done" =>
          /\ \A i \in DOMAIN selection_set :
                (selection_set[i].kind = "Field"
                    /\ should_include_node(selection_set[i].directives))
                => \E j \in DOMAIN fields[ResponseKey(selection_set[i])] :
                      fields[ResponseKey(selection_set[i])][j] = NodeId("op", <<i>>)
          /\ \A k \in DOMAIN fields :
                LET HasKey(id) == ResponseKey(NodeAt(id)) = k
                IN  fields[k] = SelectSeq(DocumentOrder, HasKey)

\* Two overlapping fields (one by alias) were merged under one key, the
\* second one reached through a fragment spread.
C6_Witness ==
    /\ status = "done"
    /\ Len(fields["a"]) >= 2
    /\ \E i, j \in DOMAIN fields["a"] :
          /\ i < j
          /\ fields["a"][i].owner = "op"
          /\ fields["a"][j].owner # "op"
          /\ NodeAt(fields["a"][j]).alias = "a"

\* C7: the sub-selections of an InlineFragment are collected if and only if
\* its directives pass and its type condition is absent, names the runtime
\* type, or names an Interface/Union of which the runtime type is a possible
\* type; otherwise none of its fields is added.
C7_InlineFragmentCondition ==
    status \in {"running", "done", "AttributeError"} =>
      \A p \in Paths(selection_set) :
        LET node == NodeAt(NodeId("op", p))
            AncestorsPass ==
                \A m \in 1..(Len(p) - 1) : Passes(NodeAt(NodeId("op", SubSeq(p, 1, m))))
        IN  (node.kind = "InlineFragment" /\ AncestorsPass) =>
              \A j \in DOMAIN node.selections :
                LET child == node.selections[j]
                    id    == NodeId("op", p \o <<j>>)
                IN  (child.kind = "Field" /\ should_include_node(child.directives)) =>
                      /\ Collected(id) => Passes(node)
                      /\ status = "done" => (Passes(node) => Collected(id))

\* An inline fragment on an interface the runtime type implements was
\* entered and its field collected.
C7_Witness ==
    /\ status = "done"
    /\ runtime_type = "Obj"
    /\ Len(selection_set) = 1
    /\ selection_set[1].kind = "InlineFragment"
    /\ selection_set[1].type_condition = "Iface"
    /\ selection_set[1].selections[1] = Field("b", None, <<>>)
    /\ fields["b"] = <<NodeId("op", <<1, 1>>)>>

\* C8: a FragmentSpread naming a fragment absent from the fragment table is
\* treated as a skip: no error is raised and collection continues.
C8_MissingFragmentIsSkipped ==
    status # "AttributeError"

\* The number of selection nodes of the request.
TotalSelections ==
    Cardinality(Paths(selection_set))
        + Cardinality(Paths(fragments["F"].selections))
        + Cardinality(Paths(fragments["G"].selections))

\* C9: collect_fields terminates for every fragment table, cyclic ones
\* included: a pass processes no more selections than the request holds
\* and never stalls before its end, and it enters the selection set of each
\* named fragment at most once.
C9_TerminatesExpandingOnce ==
    status \in {"running", "done", "AttributeError"} =>
        /\ steps <= TotalSelections
        /\ Len(stack) <= TotalSelections + 1
        /\ \A n \in DOMAIN expanded : expanded[n] <= 1
        /\ status = "running" => ENABLED NextCollect

\* A pass over two fragments that spread each other ended, each entered once.
C9_Witness ==
    /\ status = "done"
    /\ expanded = [n \in FragmentNames |-> 1]
    /\ \E i \in DOMAIN fragments["F"].selections :
          fragments["F"].selections[i] = FragmentSpread("G", <<>>)
    /\ \E i \in DOMAIN fragments["G"].selections :
          fragments["G"].selections[i] = FragmentSpread("F", <<>>)

\* A step of the loop that handles a FragmentSpread.
SpreadStep ==
    InLoop /\ Selection.kind = "FragmentSpread" /\ steps' = steps + 1

\* What a spread step does to the visited names and to the expansions.
SpreadEffect ==
    /\ ~should_include_node(Selection.directives) =>
          prev_fragment_names' = prev_fragment_names
    /\ (should_include_node(Selection.directives)
            /\ Selection.name \notin prev_fragment_names) =>
          prev_fragment_names' = prev_fragment_names \cup {Selection.name}
    /\ Selection.name \in prev_fragment_names =>
          /\ prev_fragment_names' = prev_fragment_names
          /\ expanded' = expanded
    /\ (FragmentDefined(Selection.name) /\ ~Passes(fragments[Selection.name])) =>
          expanded' = expanded

\* C24: a FragmentSpread excluded by its own directives leaves the visited
\* names unchanged (a later spread of the fragment is still expanded); a
\* spread that passes its own directives adds the name before the
\* fragment's directives and type condition are checked, so a fragment
\* rejected by those checks is never expanded by a later spread of the
\* pass; the visited set only ever grows.
C24_VisitedSetUpdates ==
    /\ [][ /\ prev_fragment_names \subseteq prev_fragment_names'
           /\ SpreadStep => SpreadEffect ]_vars
    /\ [](status \in {"running", "done", "AttributeError"} =>
            \A n \in prev_fragment_names :
                (FragmentDefined(n) /\ ~Passes(fragments[n])) => expanded[n] = 0)

\* After a spread of F excluded by @skip(if: true), the next spread of F
\* was expanded.
C24_Witness ==
    /\ status = "done"
    /\ selection_set = <<FragmentSpread("F", <<Directive("skip", "true")>>),
                         FragmentSpread("F", <<>>)>>
    /\ prev_fragment_names = {"F"}
    /\ expanded["F"] = 1

(***************************************************************************)
(* PART 4.  ExecutionContext.get_argument_values and its cache             *)
(***************************************************************************)
MaxCalls == 3

\* Field definitions: the arguments each declares, with their defaults.
FieldDefs == {"plain", "optional", "defaulted"}

FieldDefArgs(field_def) ==
    CASE field_def = "plain"     -> {}
      [] field_def = "optional"  -> {[name |-> "a", default_value |-> None]}
      [] field_def = "defaulted" -> {[name |-> "a", default_value |-> "d"]}

\* Field AST nodes: the argument literals each carries.
FieldAsts == {"bare", "with_a"}

FieldAstArguments(field_ast) ==
    IF field_ast = "bare" THEN [n \in {} |-> None] ELSE [n \in {"a"} |-> "v"]

\* values.get_argument_values: the supplied literal, else the declared
\* default; an argument with neither has no entry in the mapping.
CoerceArgumentValues(arg_defs, arg_asts) ==
    LET Value(d) == IF d.name \in DOMAIN arg_asts THEN arg_asts[d.name] ELSE d.default_value
        present  == {d \in arg_defs : Value(d) # None}
    IN  [n \in {d.name : d \in present} |->
            Value(CHOOSE d \in present : d.name = n)]

CachePairs == FieldDefs \X FieldAsts

\* `not result` on the value of argument_values_cache.get(k)
NotResult(cache, k) ==
    IF k \in DOMAIN cache THEN DOMAIN cache[k] = {} ELSE TRUE

InitArgs ==
    /\ argument_values_cache = [k \in {} |-> <<>>]
    /\ coercions = [k \in CachePairs |-> 0]
    /\ last_call = [status |-> "none"]
    /\ IdleCtx /\ IdleInclude /\ IdleCollect /\ IdleTypes /\ IdleUtil

GetArgumentValues ==
    \E field_def \in FieldDefs, field_ast \in FieldAsts :
       LET k == <<field_def, field_ast>> IN
       /\ coercions[k] < MaxCalls
       /\ IF NotResult(argument_values_cache, k)
          THEN LET result == CoerceArgumentValues(FieldDefArgs(field_def),
                                                  FieldAstArguments(field_ast))
               IN  /\ argument_values_cache' =
                         [x \in DOMAIN argument_values_cache \cup {k} |->
                             IF x = k THEN result ELSE argument_values_cache[x]]
                   /\ coercions' = [coercions EXCEPT ![k] = @ + 1]
                   /\ last_call' = [status |-> "coerced", key |-> k, result |-> result]
          ELSE /\ last_call' = [status |-> "cached", key |-> k,
                                result |-> argument_values_cache[k]]
               /\ UNCHANGED <<argument_values_cache, coercions>>
       /\ UNCHANGED <<ctxVars, includeVars, collectVars, typeVars, utilVars>>

NextArgs == GetArgumentValues

SpecArgs == InitArgs /\ [][NextArgs]_vars

(***************************************************************************)
(* Claims about ExecutionContext.get_argument_values                       *)
(***************************************************************************)
\* C10: get_argument_values is memoized per (field definition, field AST
\* node) pair: over any sequence of calls on one context the underlying
\* coercion runs at most once for each pair, whatever the coerced value is
\* (an empty argument mapping included).
C10_CoercedAtMostOncePerPair ==
    \A k \in DOMAIN coercions : coercions[k] <= 1

(***************************************************************************)
(* PART 5.  ExecutionResult.__init__                                       *)
(***************************************************************************)
MaxErrors == 2

\* An entry of the errors argument: an error, or a DeferredException
\* holding one in its `value`.
ErrorEntries == [deferred : BOOLEAN, value : {"e1", "e2"}]

\* The errors argument: None (null |-> TRUE) or a list of entries.
NoErrors == [null |-> TRUE, items |-> <<>>]
ErrorList(items) == [null |-> FALSE, items |-> items]

ErrorsArguments ==
    {NoErrors} \cup {ErrorList(items) : items \in SeqUpTo(ErrorEntries, MaxErrors)}

\* error.value if isinstance(error, DeferredException) else error
UnwrapError(error) == [deferred |-> FALSE, value |-> error.value]

NewExecutionResult(data, errors, invalid) ==
    LET unwrapped ==
            IF ~errors.null /\ errors.items # <<>>
            THEN ErrorList([i \in DOMAIN errors.items |-> UnwrapError(errors.items[i])])
            ELSE errors
    IN  IF invalid /\ data # None
        THEN [status |-> "AssertionError", data |-> None, errors |-> NoErrors, invalid |-> invalid]
        ELSE [status |-> "ok", data |-> data, errors |-> unwrapped, invalid |-> invalid]

InitResult ==
    /\ result_args \in [status : {"given"}, data : {None, "data"},
                        errors : ErrorsArguments, invalid : BOOLEAN]
    /\ execution_result = [status |-> "idle"]
    /\ IdleExec /\ IdleUtil
    /\ IdleFields /\ IdleLazy /\ IdleImpls /\ IdleResolve /\ IdleWrap /\ IdleNames

ConstructExecutionResult ==
    /\ result_args.status = "given"
    /\ execution_result.status = "idle"
    /\ execution_result' =
          NewExecutionResult(result_args.data, result_args.errors, result_args.invalid)
    /\ UNCHANGED result_args
    /\ UNCHANGED <<execVars, utilVars, fieldsVars, lazyVars, implsVars, resolveVars, wrapVars, namesVars>>

NextResult == ConstructExecutionResult

SpecResult == InitResult /\ [][NextResult]_vars

(***************************************************************************)
(* Claims about ExecutionResult                                            *)
(***************************************************************************)
\* C11: in every constructed ExecutionResult `errors` is null or a
\* non-empty array, never an empty list, whatever errors argument the
\* constructor was given.
C11_ErrorsNullOrNonEmpty ==
    execution_result.status = "ok" =>
        (execution_result.errors.null \/ Len(execution_result.errors.items) > 0)

(***************************************************************************)
(* PART 6.  GraphQLList / GraphQLNonNull construction, kind predicates     *)
(***************************************************************************)
MaxWrap == 3

\* The classes of the named types; "NotAType" stands for a value that is
\* no GraphQL type at all.
NamedKinds == {"Scalar", "Object", "Interface", "Union", "Enum", "InputObject"}

\* A type: its List / NonNull wrappers, outermost first, around a named type.
Named(kind) == [wrappers |-> <<>>, named |-> kind]

\* isinstance(type, <class>)
IsInstance(type, classes) ==
    IF type.wrappers = <<>> THEN type.named \in classes
    ELSE Head(type.wrappers) \in classes

of_type(type) == [type EXCEPT !.wrappers = Tail(@)]

is_type(type) ==
    IsInstance(type, NamedKinds \cup {"List", "NonNull"})

RECURSIVE get_named_type(_)
get_named_type(type) ==
    IF IsInstance(type, {"List", "NonNull"}) THEN get_named_type(of_type(type))
    ELSE type

\* Variant: the type itself is tested, not its named type.
is_composite_type_NoUnwrap(type) ==
    IsInstance(type, {"Object", "Interface", "Union"})

is_input_type(type) ==
    IsInstance(get_named_type(type), {"Scalar", "Enum", "InputObject"})

is_output_type(type) ==
    IsInstance(get_named_type(type), {"Scalar", "Object", "Interface", "Union", "Enum"})

is_leaf_type(type) ==
    IsInstance(get_named_type(type), {"Scalar", "Enum"})

is_composite_type(type) ==
    IsInstance(get_named_type(type), {"Object", "Interface", "Union"})

is_abstract_type(type) ==
    IsInstance(type, {"Interface", "Union"})

Wrapped(wrapper, type) == [type EXCEPT !.wrappers = <<wrapper>> \o @]

\* GraphQLList.__init__: the new type, or the assertion failure.
GraphQLList(type) ==
    IF is_type(type)
    THEN [status |-> "ok", ctor |-> "List", arg |-> type, type |-> Wrapped("List", type)]
    ELSE [status |-> "AssertionError", ctor |-> "List", arg |-> type, type |-> type]

\* Variant: any type may be wrapped.
GraphQLNonNull_AnyType(type) ==
    IF is_type(type)
    THEN [status |-> "ok", ctor |-> "NonNull", arg |-> type, type |-> Wrapped("NonNull", type)]
    ELSE [status |-> "AssertionError", ctor |-> "NonNull", arg |-> type, type |-> type]

\* GraphQLNonNull.__init__
GraphQLNonNull(type) ==
    IF is_type(type) /\ ~IsInstance(type, {"NonNull"})
    THEN [status |-> "ok", ctor |-> "NonNull", arg |-> type, type |-> Wrapped("NonNull", type)]
    ELSE [status |-> "AssertionError", ctor |-> "NonNull", arg |-> type, type |-> type]

InitWrap ==
    /\ gtype \in {Named(k) : k \in NamedKinds \cup {"NotAType"}}
    /\ kinds = [status |-> "idle"]
    /\ wrap_error = [status |-> "idle"]
    /\ IdleExec /\ IdleUtil
    /\ IdleResult /\ IdleFields /\ IdleLazy /\ IdleImpls /\ IdleResolve /\ IdleNames

ConstructList ==
    /\ gtype # [status |-> "idle"]
    /\ Len(gtype.wrappers) < MaxWrap
    /\ wrap_error' = GraphQLList(gtype)
    /\ gtype' = wrap_error'.type
    /\ kinds' = [status |-> "idle"]
    /\ UNCHANGED <<execVars, utilVars, resultVars, fieldsVars, lazyVars, implsVars, resolveVars, namesVars>>

ConstructNonNull ==
    /\ gtype # [status |-> "idle"]
    /\ Len(gtype.wrappers) < MaxWrap
    /\ wrap_error' = GraphQLNonNull(gtype)
    /\ gtype' = wrap_error'.type
    /\ kinds' = [status |-> "idle"]
    /\ UNCHANGED <<execVars, utilVars, resultVars, fieldsVars, lazyVars, implsVars, resolveVars, namesVars>>

EvalKindPredicates ==
    /\ gtype # [status |-> "idle"]
    /\ kinds.status = "idle"
    /\ kinds' = [status |-> "evaluated",
                 input     |-> is_input_type(gtype),
                 output    |-> is_output_type(gtype),
                 leaf      |-> is_leaf_type(gtype),
                 composite |-> is_composite_type(gtype),
                 abstract  |-> is_abstract_type(gtype)]
    /\ UNCHANGED <<gtype, wrap_error>>
    /\ UNCHANGED <<execVars, utilVars, resultVars, fieldsVars, lazyVars, implsVars, resolveVars, namesVars>>

NextWrap == ConstructList \/ ConstructNonNull \/ EvalKindPredicates

SpecWrap == InitWrap /\ [][NextWrap]_vars

(***************************************************************************)
(* Claims about the kind predicates and the wrappers                       *)
(***************************************************************************)
\* What each predicate answers for the bare named type of the current type.
OfNamed == [input     |-> gtype.named \in {"Scalar", "Enum", "InputObject"},
            output    |-> gtype.named \in {"Scalar", "Object", "Interface", "Union", "Enum"},
            leaf      |-> gtype.named \in {"Scalar", "Enum"},
            composite |-> gtype.named \in {"Object", "Interface", "Union"},
            abstract  |-> gtype.named \in {"Interface", "Union"}]

\* C16 (as stated): each of the five kind predicates works on the named
\* type, so a List/NonNull wrapping of T gets the same answer as T.
C16_AsStated ==
    kinds.status = "evaluated" =>
        /\ kinds.input = OfNamed.input
        /\ kinds.output = OfNamed.output
        /\ kinds.leaf = OfNamed.leaf
        /\ kinds.composite = OfNamed.composite
        /\ kinds.abstract = OfNamed.abstract

\* C16 (amended): is_input_type, is_output_type, is_leaf_type and
\* is_composite_type work on the named type, so a List/NonNull wrapping of T
\* gets the same answer as T; is_abstract_type tests the type itself: it
\* answers as for T only when T is unwrapped and is false for every wrapping.
C16_KindPredicatesUnwrap ==
    kinds.status = "evaluated" =>
        /\ kinds.input = OfNamed.input
        /\ kinds.output = OfNamed.output
        /\ kinds.leaf = OfNamed.leaf
        /\ kinds.composite = OfNamed.composite
        /\ kinds.abstract = (gtype.wrappers = <<>> /\ OfNamed.abstract)

C16_Witness ==
    /\ kinds.status = "evaluated"
    /\ gtype.named = "Interface"
    /\ gtype.wrappers = <<"NonNull", "List">>
    /\ kinds.composite /\ kinds.output /\ ~kinds.input /\ ~kinds.abstract

\* C20: constructing NonNull(NonNull(T)) fails for every type T, while
\* NonNull(List(T)) and List(NonNull(T)) succeed; no constructed NonNull
\* directly wraps another NonNull.
C20_NoNonNullOfNonNull ==
    /\ gtype # [status |-> "idle"] =>
          \A i \in 1..(Len(gtype.wrappers) - 1) :
              ~(gtype.wrappers[i] = "NonNull" /\ gtype.wrappers[i + 1] = "NonNull")
    /\ wrap_error.status # "idle" =>
          LET arg == wrap_error.arg
              inner == IF arg.wrappers = <<>> THEN "named" ELSE Head(arg.wrappers)
          IN  /\ (wrap_error.ctor = "NonNull" /\ inner = "NonNull")
                    => (wrap_error.status = "AssertionError" /\ gtype = arg)
              /\ (wrap_error.ctor = "NonNull" /\ inner = "List")
                    => (wrap_error.status = "ok" /\ gtype.wrappers = <<"NonNull">> \o arg.wrappers)
              /\ (wrap_error.ctor = "List" /\ inner = "NonNull")
                    => (wrap_error.status = "ok" /\ gtype.wrappers = <<"List">> \o arg.wrappers)

C20_Witness ==
    /\ wrap_error.status = "AssertionError"
    /\ wrap_error.ctor = "NonNull"
    /\ wrap_error.arg.wrappers = <<"NonNull", "List">>
    /\ gtype.wrappers = <<"NonNull", "List">>

(***************************************************************************)
(* PART 7.  Construction of the named types                                *)
(***************************************************************************)
MaxNameLen == 2

\* A name is a sequence of characters: a letter, the underscore, a digit,
\* a character outside the name alphabet, and the newline.
NameChars == {"a", "_", "1", "-", "\n"}
Names     == SeqUpTo(NameChars, MaxNameLen)

NameStart == {"a", "_"}
NameRest  == {"a", "_", "1"}

\* COMPILED_NAME_PATTERN.match(name) for r'^[_a-zA-Z][_a-zA-Z0-9]*$':
\* `$` also matches just before a newline that ends the string.
PatternMatches(name) ==
    /\ name # <<>>
    /\ name[1] \in NameStart
    /\ \E end \in {Len(name), Len(name) - 1} :
          /\ end >= 1
          /\ \A i \in 2..end : name[i] \in NameRest
          /\ \A i \in (end + 1)..Len(name) : name[i] = "\n"

\* assert_valid_name: TRUE when the assertion passes.
assert_valid_name(name) == PatternMatches(name)

\* The constructors that validate the name after `assert name`.
ValidatingKinds == {"Scalar", "Object", "Interface", "Union", "Enum"}

\* __init__ of the named type of the given kind: TRUE when it returns.
\* other_valid: the remaining arguments pass the constructor's other checks
\* (GraphQLInputObjectType has none).
NamedTypeInit(kind, name, other_valid) ==
    /\ name # <<>>
    /\ kind \in ValidatingKinds => assert_valid_name(name)
    /\ kind \in ValidatingKinds => other_valid

InitNames ==
    /\ name_args \in [status : {"given"}, kind : NamedKinds, name : Names,
                      other_valid : BOOLEAN]
    /\ named_types = {}
    /\ IdleExec /\ IdleUtil
    /\ IdleResult /\ IdleFields /\ IdleLazy /\ IdleImpls /\ IdleResolve /\ IdleWrap

ConstructNamedType ==
    /\ name_args.status = "given"
    /\ IF NamedTypeInit(name_args.kind, name_args.name, name_args.other_valid)
       THEN /\ named_types' = {[kind |-> name_args.kind, name |-> name_args.name]}
            /\ name_args' = [name_args EXCEPT !.status = "ok"]
       ELSE /\ name_args' = [name_args EXCEPT !.status = "AssertionError"]
            /\ UNCHANGED named_types
    /\ UNCHANGED <<execVars, utilVars, resultVars, fieldsVars, lazyVars, implsVars, resolveVars, wrapVars>>

NextNames == ConstructNamedType

SpecNames == InitNames /\ [][NextNames]_vars

(***************************************************************************)
(* Claims about name validation                                            *)
(***************************************************************************)
\* The names of the grammar [_a-zA-Z][_a-zA-Z0-9]*.
IsValidName(name) ==
    /\ name # <<>>
    /\ name[1] \in NameStart
    /\ \A i \in 2..Len(name) : name[i] \in NameRest

\* C17: constructing a named type (Scalar, Object, Interface, Union, Enum,
\* InputObject) with a name that does not match ^[_a-zA-Z][_a-zA-Z0-9]*$
\* fails, so no named type with an invalid name ever exists.
C17_NoInvalidNamedType ==
    \A t \in named_types : IsValidName(t.name)

(***************************************************************************)
(* PART 8.  get_fields() and the definition of the field map               *)
(***************************************************************************)
MaxFields == 2
MaxGetFields == 2

\* Field names in the order of Python's string comparison; <<"1">> is not a
\* valid name.
FieldNameOrder == << <<"1">>, <<"_">>, <<"a">> >>
FieldKeys      == {FieldNameOrder[i] : i \in DOMAIN FieldNameOrder}
Rank(name)     == CHOOSE i \in DOMAIN FieldNameOrder : FieldNameOrder[i] = name

\* The types given to fields and arguments: one that is both an input and an
\* output type, one output-only, one input-only behind a NonNull wrapper.
FieldTypes == {Named("Scalar"), Named("Object"),
               Wrapped("NonNull", Named("InputObject"))}

\* The args of a GraphQLField: None, or a mapping of one argument.
NoArgs       == [given |-> FALSE, items |-> <<>>]
ArgsOf(type) == [given |-> TRUE, items |-> << [name |-> <<"a">>, type |-> type] >>]
FieldArgs    == {NoArgs, ArgsOf(Named("Scalar")), ArgsOf(Named("Object"))}

\* The values of a field mapping: GraphQLField, GraphQLInputObjectField
\* (which has no args), or a value of another class.
MappingValues(name) ==
    [name : {name}, class : {"GraphQLField"}, type : FieldTypes, args : FieldArgs]
    \cup [name : {name}, class : {"GraphQLInputObjectField"}, type : FieldTypes,
          args : {NoArgs}]
    \cup [name : {name}, class : {"Other"}, type : {Named("Scalar")}, args : {NoArgs}]
MappingItems == UNION {MappingValues(name) : name \in FieldKeys}

\* The items of a mapping: its keys are distinct.
DistinctKeys(items) ==
    \A i, j \in DOMAIN items : i # j => items[i].name # items[j].name

\* The types whose fields are defined lazily, with their `fields` argument:
\* a mapping or a thunk returning it, ordered (OrderedDict) or not (dict).
TypeDefs ==
    {[status |-> "given", kind |-> kind, thunk |-> thunk, ordered |-> ordered,
      items |-> items] :
        kind \in {"Object", "Interface", "InputObject"}, thunk \in BOOLEAN,
        ordered \in BOOLEAN,
        items \in {m \in SeqUpTo(MappingItems, MaxFields) : DistinctKeys(m)}}

\* sorted(list(field_map.items())): by key, the keys being distinct.
RECURSIVE SortedFrom(_, _)
SortedFrom(items, i) ==
    IF i > Len(FieldNameOrder) THEN <<>>
    ELSE SelectSeq(items, LAMBDA f : f.name = FieldNameOrder[i])
         \o SortedFrom(items, i + 1)

\* A variant that keeps the order of the dict.
OrderFieldMap_AsGiven(ordered, items) == items

\* OrderedDict kept as it is, any other mapping sorted by name.
OrderFieldMap(ordered, items) ==
    IF ~ordered THEN SortedFrom(items, 1) ELSE items

\* A variant that does not check the types of the arguments.
DefineArgs_Unchecked(args) ==
    IF ~args.given \/ args.items = <<>>
    THEN [status |-> "ok", args |-> <<>>]
    ELSE [status |-> "ok", args |-> args.items]

\* The args of one field: [] when the field has none, else the checked list.
DefineArgs(args) ==
    IF ~args.given \/ args.items = <<>>
    THEN [status |-> "ok", args |-> <<>>]
    ELSE IF \A i \in DOMAIN args.items :
               /\ assert_valid_name(args.items[i].name)
               /\ is_input_type(args.items[i].type)
         THEN [status |-> "ok", args |-> args.items]
         ELSE [status |-> "AssertionError"]

\* One iteration of the loop of define_field_map.
DefineField(field) ==
    IF /\ assert_valid_name(field.name)
       /\ field.class = "GraphQLField"
       /\ is_output_type(field.type)
       /\ DefineArgs(field.args).status = "ok"
    THEN [status |-> "ok",
          field |-> [name |-> field.name, type |-> field.type,
                     args |-> DefineArgs(field.args).args]]
    ELSE [status |-> "AssertionError"]

\* One iteration of the loop of GraphQLInputObjectType._define_field_map.
DefineInputField(field) ==
    IF /\ assert_valid_name(field.name)
       /\ field.class = "GraphQLInputObjectField"
       /\ is_input_type(field.type)
    THEN [status |-> "ok", field |-> [name |-> field.name, type |-> field.type]]
    ELSE [status |-> "AssertionError"]

\* define_field_map(type, type._fields) of Object and Interface types.
define_field_map(def) ==
    LET ordered_items == OrderFieldMap(def.ordered, def.items)
    IN  IF /\ Len(def.items) > 0
           /\ \A i \in DOMAIN ordered_items : DefineField(ordered_items[i]).status = "ok"
        THEN [status |-> "ok",
              entries |-> [i \in DOMAIN ordered_items |-> DefineField(ordered_items[i]).field]]
        ELSE [status |-> "AssertionError"]

\* GraphQLInputObjectType._define_field_map
_define_field_map(def) ==
    LET ordered_items == OrderFieldMap(def.ordered, def.items)
    IN  IF /\ Len(def.items) > 0
           /\ \A i \in DOMAIN ordered_items :
                 DefineInputField(ordered_items[i]).status = "ok"
        THEN [status |-> "ok",
              entries |-> [i \in DOMAIN ordered_items |->
                              DefineInputField(ordered_items[i]).field]]
        ELSE [status |-> "AssertionError"]

\* The field map of a type by its kind.
DefineFieldMapOf(def) ==
    IF def.kind = "InputObject" THEN _define_field_map(def) ELSE define_field_map(def)

InitFields ==
    /\ type_def \in TypeDefs
    /\ field_map = [null |-> TRUE, entries |-> <<>>]
    /\ thunk_calls = 0
    /\ get_fields_log = <<>>
    /\ IdleExec /\ IdleUtil
    /\ IdleResult /\ IdleLazy /\ IdleImpls /\ IdleResolve /\ IdleWrap /\ IdleNames

\* A variant that returns the defined map without keeping it.
GetFields_NoMemo ==
    /\ type_def.status = "given"
    /\ Len(get_fields_log) < MaxGetFields
    /\ thunk_calls' = thunk_calls + (IF type_def.thunk THEN 1 ELSE 0)
    /\ get_fields_log' = Append(get_fields_log, DefineFieldMapOf(type_def))
    /\ UNCHANGED <<type_def, field_map>>
    /\ UNCHANGED <<execVars, utilVars, resultVars, lazyVars, implsVars, resolveVars, wrapVars, namesVars>>

\* get_fields(): defines the field map when none is stored, calling the
\* thunk when the fields were given as one; a failed assertion leaves
\* _field_map as it was.
GetFields ==
    /\ type_def.status = "given"
    /\ Len(get_fields_log) < MaxGetFields
    /\ IF field_map.null
       THEN /\ thunk_calls' = thunk_calls + (IF type_def.thunk THEN 1 ELSE 0)
            /\ get_fields_log' = Append(get_fields_log, DefineFieldMapOf(type_def))
            /\ IF DefineFieldMapOf(type_def).status = "ok"
               THEN field_map' = [null |-> FALSE,
                                  entries |-> DefineFieldMapOf(type_def).entries]
               ELSE UNCHANGED field_map
       ELSE /\ get_fields_log' = Append(get_fields_log,
                                        [status |-> "ok", entries |-> field_map.entries])
            /\ UNCHANGED <<thunk_calls, field_map>>
    /\ UNCHANGED type_def
    /\ UNCHANGED <<execVars, utilVars, resultVars, lazyVars, implsVars, resolveVars, wrapVars, namesVars>>

NextFields == GetFields

SpecFields == InitFields /\ [][NextFields]_vars

(***************************************************************************)
(* Claims about the field map                                              *)
(***************************************************************************)
Calls        == DOMAIN get_fields_log
Failed(i)    == get_fields_log[i].status = "AssertionError"
Returned(i)  == get_fields_log[i].status = "ok"
FailedCalls  == Cardinality({i \in Calls : Failed(i)})

\* C12 as stated: over any sequence of get_fields() calls on a type whose
\* fields are a thunk, the thunk is invoked at most once and every call
\* returns the same memoized map, also after a call that failed validation.
C12_AsStated ==
    type_def.status = "given" /\ type_def.thunk =>
        /\ thunk_calls <= 1
        /\ \A i, j \in Calls : get_fields_log[i] = get_fields_log[j]

\* C12, amended: the thunk is invoked once per failed call and once more for
\* the first call that succeeds; from then on the map is memoized and every
\* successful call returns that same map.  After a failure nothing is
\* memoized, and the next call invokes the thunk again.
C12_ThunkOncePerDefinition ==
    type_def.status = "given" /\ type_def.thunk =>
        /\ thunk_calls = FailedCalls + (IF field_map.null THEN 0 ELSE 1)
        /\ field_map.null => \A i \in Calls : Failed(i)
        /\ \A i \in Calls : Returned(i) =>
              /\ ~field_map.null
              /\ get_fields_log[i].entries = field_map.entries

\* Two calls of get_fields() on a thunk-defined type returned the map.
C12_Witness ==
    /\ type_def.status = "given" /\ type_def.thunk
    /\ Len(get_fields_log) = 2
    /\ Returned(1) /\ Returned(2)
    /\ thunk_calls = 1

\* A field whose type, or one of whose argument types, has the wrong kind.
BadObjectField(field) ==
    \/ ~is_output_type(field.type)
    \/ \E i \in DOMAIN field.args.items : ~is_input_type(field.args.items[i].type)

BadField(def) ==
    \E i \in DOMAIN def.items :
        IF def.kind = "InputObject"
        THEN ~is_input_type(def.items[i].type)
        ELSE BadObjectField(def.items[i])

SourceField(name) ==
    CHOOSE f \in {type_def.items[i] : i \in DOMAIN type_def.items} : f.name = name

\* C18: get_fields() on an Object or Interface type fails if a field's type
\* is not an output type or an argument's type is not an input type, and on
\* an InputObject if a field's type is not an input type; a field with no
\* argument list gets an empty one; on failure no field map is stored.
C18_FieldMapValidation ==
    type_def.status = "given" =>
        \A i \in Calls :
            /\ BadField(type_def) => Failed(i)
            /\ Failed(i) => field_map.null
            /\ Returned(i) /\ type_def.kind # "InputObject" =>
                  \A n \in DOMAIN get_fields_log[i].entries :
                      LET entry == get_fields_log[i].entries[n]
                      IN  ~SourceField(entry.name).args.given => entry.args = <<>>

\* Two calls failed on a well-formed field with an argument of an output-only
\* type, and no field map was stored.
C18_Witness ==
    /\ type_def.status = "given" /\ type_def.kind = "Object"
    /\ Len(get_fields_log) = 2
    /\ Len(type_def.items) = 1
    /\ type_def.items[1].class = "GraphQLField"
    /\ type_def.items[1].name = <<"a">>
    /\ type_def.items[1].type = Named("Scalar")
    /\ type_def.items[1].args = ArgsOf(Named("Object"))
    /\ Failed(1) /\ Failed(2)
    /\ field_map.null

\* The names of a sequence of fields, in order.
NamesOf(entries) == [i \in DOMAIN entries |-> entries[i].name]

Ascending(names) ==
    \A i, j \in DOMAIN names : i < j => Rank(names[i]) < Rank(names[j])

\* C19: for an Object or Interface field mapping get_fields() yields the
\* fields in insertion order when the source mapping is ordered and in
\* alphabetical order by name otherwise; repeated calls yield the same order.
C19_FieldOrder ==
    type_def.status = "given" /\ type_def.kind # "InputObject" =>
        \A i \in Calls : Returned(i) =>
            LET names == NamesOf(get_fields_log[i].entries)
            IN  /\ type_def.ordered => names = NamesOf(type_def.items)
                /\ ~type_def.ordered =>
                      /\ Ascending(names)
                      /\ Len(names) = Len(type_def.items)
                      /\ {names[n] : n \in DOMAIN names}
                            = {type_def.items[n].name : n \in DOMAIN type_def.items}
                /\ \A j \in Calls : Returned(j) =>
                      NamesOf(get_fields_log[j].entries) = names

\* A dict holding a before _ was returned twice as _, a.
C19_Witness ==
    /\ type_def.status = "given" /\ type_def.kind = "Interface"
    /\ ~type_def.ordered
    /\ NamesOf(type_def.items) = << <<"a">>, <<"_">> >>
    /\ Len(get_fields_log) = 2
    /\ Returned(1) /\ Returned(2)
    /\ NamesOf(get_fields_log[2].entries) = << <<"_">>, <<"a">> >>

(***************************************************************************)
(* PART 9.  Interleaved first calls of the lazily resolving methods        *)
(***************************************************************************)
MaxThreads == 2

\* The lazily assigned attributes: _field_map of an Object type,
\* _possible_types and _possible_type_names of a Union type.
LazyCells == {"_field_map", "_possible_types", "_possible_type_names"}

\* The methods the executions call, and the attribute each one returns.
LazyMethods == {"get_fields", "get_possible_types", "is_possible_type"}
CellOf(method) ==
    CASE method = "get_fields"         -> "_field_map"
      [] method = "get_possible_types" -> "_possible_types"
      [] method = "is_possible_type"   -> "_possible_type_names"

\* A cell holds 0 for None, else the number of the resolution that made the
\* object it refers to (every resolution makes a new object).
Unresolved == 0

InitLazy ==
    /\ cells = [c \in LazyCells |-> Unresolved]
    /\ resolutions = [c \in LazyCells |-> 0]
    /\ threads \in [1..MaxThreads -> [method : LazyMethods, pc : {"check"},
                                      observed : {Unresolved}]]
    /\ IdleExec /\ IdleUtil
    /\ IdleResult /\ IdleFields /\ IdleImpls /\ IdleResolve /\ IdleWrap /\ IdleNames

OtherPartsOfLazy ==
    <<execVars, utilVars, resultVars, fieldsVars, implsVars, resolveVars, wrapVars, namesVars>>

\* `if self._x is None:` of the method the thread is in.
CheckCell(t) ==
    /\ threads[t].pc = "check"
    /\ threads' = [threads EXCEPT ![t].pc =
          IF cells[CellOf(threads[t].method)] # Unresolved THEN "return"
          ELSE IF threads[t].method = "is_possible_type" THEN "inner_check"
          ELSE "resolve"]
    /\ UNCHANGED <<cells, resolutions>>
    /\ UNCHANGED OtherPartsOfLazy

\* `self._x = define_...(self, ...)`: the thunk is called, the result stored.
ResolveCell(t) ==
    /\ threads[t].pc = "resolve"
    /\ resolutions' = [resolutions EXCEPT ![CellOf(threads[t].method)] = @ + 1]
    /\ cells' = [cells EXCEPT ![CellOf(threads[t].method)] =
                    resolutions[CellOf(threads[t].method)] + 1]
    /\ threads' = [threads EXCEPT ![t].pc = "return"]
    /\ UNCHANGED OtherPartsOfLazy

\* is_possible_type calling get_possible_types: its `if` ...
InnerCheck(t) ==
    /\ threads[t].pc = "inner_check"
    /\ threads' = [threads EXCEPT ![t].pc =
          IF cells["_possible_types"] # Unresolved THEN "build" ELSE "inner_resolve"]
    /\ UNCHANGED <<cells, resolutions>>
    /\ UNCHANGED OtherPartsOfLazy

\* ... and its assignment of define_types(self, self._types).
InnerResolve(t) ==
    /\ threads[t].pc = "inner_resolve"
    /\ resolutions' = [resolutions EXCEPT !["_possible_types"] = @ + 1]
    /\ cells' = [cells EXCEPT !["_possible_types"] = resolutions["_possible_types"] + 1]
    /\ threads' = [threads EXCEPT ![t].pc = "build"]
    /\ UNCHANGED OtherPartsOfLazy

\* `self._possible_type_names = set(t.name for t in ...)`
BuildNames(t) ==
    /\ threads[t].pc = "build"
    /\ resolutions' = [resolutions EXCEPT !["_possible_type_names"] = @ + 1]
    /\ cells' = [cells EXCEPT !["_possible_type_names"] =
                    resolutions["_possible_type_names"] + 1]
    /\ threads' = [threads EXCEPT ![t].pc = "return"]
    /\ UNCHANGED OtherPartsOfLazy

\* `return self._x` (is_possible_type: the name set it looks the name up in)
ReturnCell(t) ==
    /\ threads[t].pc = "return"
    /\ threads' = [threads EXCEPT ![t].pc = "done",
                                  ![t].observed = cells[CellOf(threads[t].method)]]
    /\ UNCHANGED <<cells, resolutions>>
    /\ UNCHANGED OtherPartsOfLazy

NextLazy ==
    \E t \in DOMAIN threads :
        \/ CheckCell(t)
        \/ ResolveCell(t)
        \/ InnerCheck(t)
        \/ InnerResolve(t)
        \/ BuildNames(t)
        \/ ReturnCell(t)

SpecLazy == InitLazy /\ [][NextLazy]_vars

(***************************************************************************)
(* Claims about concurrent first calls                                     *)
(***************************************************************************)
\* C13: when several executions interleave their first get_fields() /
\* get_possible_types() / is_possible_type() calls on the same type, each
\* lazy resolution is performed at most once and every caller observes the
\* same resolved value.
C13_ResolvedAtMostOnce ==
    /\ \A c \in DOMAIN resolutions : resolutions[c] <= 1
    /\ \A t, u \in DOMAIN threads :
          /\ threads[t].pc = "done" /\ threads[u].pc = "done"
          /\ threads[t].method = threads[u].method
          => threads[t].observed = threads[u].observed

(***************************************************************************)
(* PART 10.  Object types registering with an Interface; is_possible_type  *)
(***************************************************************************)
MaxObjects == 2

\* The names of the object types; names are unique in a type system.
ObjectNames == {"A", "B", "C"}

\* define_interfaces for an object type that declares the interface or
\* none: TRUE when its assertions pass.
define_interfaces(object) ==
    object.declares /\ ~interface_type.type_resolver => object.is_type_of

\* GraphQLInterfaceType.__init__: no implementation, no cached name set.
InitImpls ==
    /\ interface_type \in [status : {"constructed"}, type_resolver : BOOLEAN]
    /\ objects = <<>>
    /\ impls = <<>>
    /\ cached_type_names = [null |-> TRUE, names |-> {}]
    /\ answer = [status |-> "idle"]
    /\ IdleExec /\ IdleUtil
    /\ IdleResult /\ IdleFields /\ IdleLazy /\ IdleResolve /\ IdleWrap /\ IdleNames

OtherPartsOfImpls ==
    <<execVars, utilVars, resultVars, fieldsVars, lazyVars, resolveVars, wrapVars, namesVars>>

\* GraphQLObjectType.__init__, ending in add_impl_to_interfaces(self); a
\* failed assertion of define_interfaces leaves no object type.
ConstructObjectType ==
    \E name \in ObjectNames, declares \in BOOLEAN, is_type_of \in BOOLEAN :
        LET object == [name |-> name, declares |-> declares, is_type_of |-> is_type_of]
        IN  /\ Len(objects) < MaxObjects
            /\ \A i \in DOMAIN objects : objects[i].name # name
            /\ IF define_interfaces(object)
               THEN /\ objects' = Append(objects, object)
                    /\ impls' = IF declares THEN Append(impls, name) ELSE impls
               ELSE UNCHANGED <<objects, impls>>
            /\ UNCHANGED <<interface_type, cached_type_names, answer>>
            /\ UNCHANGED OtherPartsOfImpls

\* Interface.is_possible_type(type) for a constructed object type; answer
\* keeps what it returned and what get_possible_types() held at the call.
IsPossibleType ==
    \E i \in DOMAIN objects :
        LET type_names == IF cached_type_names.null
                          THEN {impls[n] : n \in DOMAIN impls}
                          ELSE cached_type_names.names
        IN  /\ cached_type_names' = [null |-> FALSE, names |-> type_names]
            /\ answer' = [status |-> "ok", type |-> objects[i].name,
                          value |-> objects[i].name \in type_names,
                          possible_types |-> impls]
            /\ UNCHANGED <<interface_type, objects, impls>>
            /\ UNCHANGED OtherPartsOfImpls

NextImpls == ConstructObjectType \/ IsPossibleType

SpecImpls == InitImpls /\ [][NextImpls]_vars

(***************************************************************************)
(* Claims about the possible types of an Interface                         *)
(***************************************************************************)
\* C14: after any sequence of object-type constructions and
\* is_possible_type calls, Interface.is_possible_type(T) is true exactly
\* when T is in get_possible_types(), also for object types constructed
\* after the first is_possible_type call.
C14_PossibleTypeIffImplementation ==
    answer.status = "ok" =>
        (answer.value <=>
            \E n \in DOMAIN answer.possible_types : answer.possible_types[n] = answer.type)

(***************************************************************************)
(* PART 11.  resolve_type of Interface and Union types                     *)
(***************************************************************************)
MaxPossible == 2

\* What a possible type's is_type_of is for the value at hand: not a
\* function, or a function returning True or False.
IsTypeOfValues == {"NotCallable", "True", "False"}

\* The possible types in declaration order, their names distinct.
PossibleTypeLists ==
    {l \in SeqUpTo([name : ObjectNames, is_type_of : IsTypeOfValues], MaxPossible) :
        \A i, j \in DOMAIN l : i # j => l[i].name # l[j].name}

\* The resolver given to the abstract type: none, or a function returning
\* a type or None for the value at hand.
NoResolver    == [present |-> FALSE, returns |-> None]
Resolver(ret) == [present |-> TRUE, returns |-> ret]
Resolvers     == {NoResolver} \cup {Resolver(ret) : ret \in ObjectNames \cup {None}}

\* An Interface without a resolver only has implementations that provide
\* is_type_of (define_interfaces); a Union checks its types when they are
\* first asked for (define_types).
AbstractTypes ==
    {a \in [status : {"given"}, kind : {"Interface", "Union"},
            resolver : Resolvers, types : PossibleTypeLists] :
        a.kind = "Interface" /\ ~a.resolver.present =>
            \A i \in DOMAIN a.types : a.types[i].is_type_of # "NotCallable"}

\* define_types(union_type, types): TRUE when its assertions pass.
define_types(abstract) ==
    /\ Len(abstract.types) > 0
    /\ ~abstract.resolver.present =>
          \A i \in DOMAIN abstract.types : abstract.types[i].is_type_of # "NotCallable"

\* A variant returning the last type whose is_type_of holds.
get_type_of_LastMatch(possible_types) ==
    LET matching == {i \in DOMAIN possible_types : possible_types[i].is_type_of = "True"}
    IN  IF matching = {} THEN None
        ELSE possible_types[CHOOSE i \in matching : \A j \in matching : j <= i].name

\* get_type_of: the loop returns at the first type whose is_type_of is a
\* function that holds of the value; falling off the loop returns None.
get_type_of(possible_types) ==
    LET matching == {i \in DOMAIN possible_types : possible_types[i].is_type_of = "True"}
    IN  IF matching = {} THEN None
        ELSE possible_types[CHOOSE i \in matching : \A j \in matching : i <= j].name

\* resolve_type(value, info) of both abstract types.
resolve_type(abstract) ==
    IF abstract.resolver.present
    THEN [status |-> "ok", type |-> abstract.resolver.returns]
    ELSE IF abstract.kind = "Union" /\ ~define_types(abstract)
         THEN [status |-> "AssertionError"]
         ELSE [status |-> "ok", type |-> get_type_of(abstract.types)]

InitResolve ==
    /\ abstract_type \in AbstractTypes
    /\ resolved = [status |-> "idle"]
    /\ IdleExec /\ IdleUtil
    /\ IdleResult /\ IdleFields /\ IdleLazy /\ IdleImpls /\ IdleWrap /\ IdleNames

ResolveType ==
    /\ abstract_type.status = "given"
    /\ resolved.status = "idle"
    /\ resolved' = resolve_type(abstract_type)
    /\ UNCHANGED abstract_type
    /\ UNCHANGED <<execVars, utilVars, resultVars, fieldsVars, lazyVars, implsVars, wrapVars, namesVars>>

NextResolve == ResolveType

SpecResolve == InitResolve /\ [][NextResolve]_vars

(***************************************************************************)
(* Claims about resolve_type                                               *)
(***************************************************************************)
\* The declared type at position i holds of the value and none before it does.
FirstMatch(i) ==
    /\ abstract_type.types[i].is_type_of = "True"
    /\ \A j \in 1..(i - 1) : abstract_type.types[j].is_type_of # "True"

\* C15: resolve_type on an Interface or Union returns the user-supplied
\* resolver's result when a resolver is present; otherwise it returns the
\* first possible type, in declaration order, whose is_type_of(value, info)
\* is true, or none when no possible type matches.  (It raises only for a
\* Union without a resolver whose type list does not pass define_types.)
C15_ResolveType ==
    resolved.status # "idle" =>
        /\ abstract_type.resolver.present =>
              resolved = [status |-> "ok", type |-> abstract_type.resolver.returns]
        /\ ~abstract_type.resolver.present /\ resolved.status = "ok" =>
              /\ \A i \in DOMAIN abstract_type.types :
                    FirstMatch(i) => resolved.type = abstract_type.types[i].name
              /\ (\A i \in DOMAIN abstract_type.types :
                     abstract_type.types[i].is_type_of # "True")
                    => resolved.type = None
        /\ resolved.status = "AssertionError" =>
              /\ abstract_type.kind = "Union" /\ ~abstract_type.resolver.present
              /\ \/ abstract_type.types = <<>>
                 \/ \E i \in DOMAIN abstract_type.types :
                       abstract_type.types[i].is_type_of = "NotCallable"

\* Without a resolver, of two declared types that both hold of the value
\* the first one was returned.
C15_Witness ==
    /\ abstract_type.status = "given"
    /\ ~abstract_type.resolver.present
    /\ Len(abstract_type.types) = 2
    /\ abstract_type.types[1].is_type_of = "True"
    /\ abstract_type.types[2].is_type_of = "True"
    /\ resolved = [status |-> "ok", type |-> abstract_type.types[1].name]

(***************************************************************************)
(* PART 12.  GraphQLError.source / positions / locations, format_error     *)
(***************************************************************************)
MaxErrorNodes == 2

\* The body of the source the nodes are located in: two lines.
SourceBody == <<"x", "\n", "x">>
Offsets    == 0..Len(SourceBody)

\* node.loc: None, or a location in the source starting at an offset.
NoLoc      == [null |-> TRUE, start |-> 0]
Loc(start) == [null |-> FALSE, start |-> start]
Locs       == {NoLoc} \cup {Loc(start) : start \in Offsets}

\* A list argument that may be None.
NoList       == [null |-> TRUE, items |-> <<>>]
ListOf(items) == [null |-> FALSE, items |-> items]

\* The errors: nodes (None or a list of nodes, each given by its loc),
\* the explicit source (given or not) and the explicit positions.
GraphQLErrors ==
    [status : {"given"},
     nodes : {NoList} \cup {ListOf(l) : l \in SeqUpTo(Locs, MaxErrorNodes)},
     source : BOOLEAN,
     positions : {NoList} \cup {ListOf(l) : l \in SeqUpTo(Offsets, MaxErrorNodes)}]

\* Python truthiness of a list or None.
Truthy(list) == ~list.null /\ list.items # <<>>

\* GraphQLError.source: whether the property yields a source.
ErrorSource(e) ==
    IF e.source THEN TRUE
    ELSE IF Truthy(e.nodes) THEN ~e.nodes.items[1].null
    ELSE FALSE

\* `node.loc and node.loc.start` of every node; None where loc is None.
NodePositions(nodes) ==
    [i \in DOMAIN nodes |-> [null |-> nodes[i].null, offset |-> nodes[i].start]]

\* any(node_positions): None and 0 are falsy.
AnyTruthy(node_positions) ==
    \E i \in DOMAIN node_positions :
        ~node_positions[i].null /\ node_positions[i].offset # 0

\* GraphQLError.positions
ErrorPositions(e) ==
    IF Truthy(e.positions)
    THEN ListOf([i \in DOMAIN e.positions.items |->
                    [null |-> FALSE, offset |-> e.positions.items[i]]])
    ELSE IF ~e.nodes.null
         THEN IF AnyTruthy(NodePositions(e.nodes.items))
              THEN ListOf(NodePositions(e.nodes.items))
              ELSE NoList
         ELSE NoList

\* get_location(source, position): 1-based line and column of an offset,
\* the line breaks of the body being those before the offset.
get_location(position) ==
    LET breaks == {i \in 1..Len(SourceBody) : SourceBody[i] = "\n" /\ i - 1 < position}
        line_start == IF breaks = {} THEN 0
                      ELSE CHOOSE i \in breaks : \A j \in breaks : j <= i
    IN  [line |-> 1 + Cardinality(breaks), column |-> position + 1 - line_start]

\* GraphQLError.locations: None, the locations, or the failure of
\* get_location on a position that is None.
ErrorLocations(e) ==
    IF Truthy(ErrorPositions(e)) /\ ErrorSource(e)
    THEN IF \E i \in DOMAIN ErrorPositions(e).items : ErrorPositions(e).items[i].null
         THEN [status |-> "TypeError"]
         ELSE [status |-> "ok", null |-> FALSE,
               items |-> [i \in DOMAIN ErrorPositions(e).items |->
                             get_location(ErrorPositions(e).items[i].offset)]]
    ELSE [status |-> "ok", null |-> TRUE, items |-> <<>>]

\* format_error(error): the message, and `locations` when they are not None.
format_error(e) ==
    IF ErrorLocations(e).status # "ok" THEN [status |-> ErrorLocations(e).status]
    ELSE [status |-> "ok",
          has_locations |-> ~ErrorLocations(e).null,
          locations |-> ErrorLocations(e).items]

InitError ==
    /\ graphql_error \in GraphQLErrors
    /\ formatted_error = [status |-> "idle"]
    /\ IdleExec /\ IdleTypes /\ IdleGlobalId

FormatError ==
    /\ graphql_error.status = "given"
    /\ formatted_error.status = "idle"
    /\ formatted_error' = format_error(graphql_error)
    /\ UNCHANGED graphql_error
    /\ UNCHANGED <<execVars, typeVars, globalIdVars>>

NextError == FormatError

SpecError == InitError /\ [][NextError]_vars

(***************************************************************************)
(* Claims about error locations                                            *)
(***************************************************************************)
\* No node, no explicit position.
NothingAttached ==
    /\ ~Truthy(graphql_error.nodes)
    /\ ~Truthy(graphql_error.positions)

\* Nodes are attached and each one carries a location in the source; no
\* explicit positions replace theirs.
AllNodesLocated ==
    /\ Truthy(graphql_error.nodes)
    /\ \A i \in DOMAIN graphql_error.nodes.items : ~graphql_error.nodes.items[i].null
    /\ ~Truthy(graphql_error.positions)

\* C21: the formatted error omits `locations` when no AST node (and no
\* explicit position) is attached, and for an error whose implicated nodes
\* all carry a location in a source it includes exactly one {line, column}
\* entry per implicated node, whatever the nodes' start offsets are
\* (offset 0 included).
C21_LocationsPerNode ==
    formatted_error.status # "idle" =>
        /\ NothingAttached =>
              formatted_error.status = "ok" /\ ~formatted_error.has_locations
        /\ AllNodesLocated =>
              /\ formatted_error.status = "ok"
              /\ formatted_error.has_locations
              /\ Len(formatted_error.locations) = Len(graphql_error.nodes.items)
              /\ \A i \in DOMAIN graphql_error.nodes.items :
                    formatted_error.locations[i]
                        = get_location(graphql_error.nodes.items[i].start)

(***************************************************************************)
(* PART 13.  to_global_id / from_global_id                                 *)
(***************************************************************************)
MaxIdLen == 2

\* Strings are sequences of characters; CharCode is the UTF-8 byte of each
\* (all of them ASCII).
IdChars == {"a", ":", "0", "1", "7"}
CharCode(c) ==
    CASE c = "a" -> 97
      [] c = ":" -> 58
      [] c = "0" -> 48
      [] c = "1" -> 49
      [] c = "7" -> 55
CodeChar(b) == CHOOSE c \in IdChars : CharCode(c) = b

\* Type names hold no ':'; ids are strings, which may, or integers.
TypeNameStrings == SeqUpTo({"a", "1"}, MaxIdLen)
IntIds          == {0, 7, 10}
Ids ==
    [kind : {"str"}, value : SeqUpTo({"a", ":"}, MaxIdLen)]
    \cup [kind : {"int"}, value : IntIds]

DigitChar(d) == CASE d = 0 -> "0" [] d = 1 -> "1" [] d = 7 -> "7"

\* str(id)
RECURSIVE Decimal(_)
Decimal(n) ==
    IF n < 10 THEN <<DigitChar(n)>>
    ELSE Decimal(n \div 10) \o <<DigitChar(n % 10)>>

Str(id) == IF id.kind = "int" THEN Decimal(id.value) ELSE id.value

\* bytes(s, 'utf-8') and its inverse bytes.decode('utf-8')
Utf8Encode(str) == [i \in DOMAIN str |-> CharCode(str[i])]
Utf8Decode(bytes) == [i \in DOMAIN bytes |-> CodeChar(bytes[i])]

\* Base64 text is a sequence of indexes into the base64 alphabet, Pad for '='.
Pad == 64

RECURSIVE b64encode(_)
b64encode(bytes) ==
    IF Len(bytes) = 0 THEN <<>>
    ELSE IF Len(bytes) = 1
    THEN <<bytes[1] \div 4, (bytes[1] % 4) * 16, Pad, Pad>>
    ELSE IF Len(bytes) = 2
    THEN <<bytes[1] \div 4, (bytes[1] % 4) * 16 + bytes[2] \div 16,
           (bytes[2] % 16) * 4, Pad>>
    ELSE <<bytes[1] \div 4, (bytes[1] % 4) * 16 + bytes[2] \div 16,
           (bytes[2] % 16) * 4 + bytes[3] \div 64, bytes[3] % 64>>
         \o b64encode(SubSeq(bytes, 4, Len(bytes)))

RECURSIVE b64decode(_)
b64decode(text) ==
    IF Len(text) < 4 THEN <<>>
    ELSE IF text[3] = Pad
    THEN <<text[1] * 4 + text[2] \div 16>>
    ELSE IF text[4] = Pad
    THEN <<text[1] * 4 + text[2] \div 16, (text[2] % 16) * 16 + text[3] \div 4>>
    ELSE <<text[1] * 4 + text[2] \div 16, (text[2] % 16) * 16 + text[3] \div 4,
           (text[3] % 4) * 64 + text[4]>>
         \o b64decode(SubSeq(text, 5, Len(text)))

\* utils.base64 / utils.unbase64 (the branch taken where basestring is
\* undefined)
base64(str)    == b64encode(Utf8Encode(str))
unbase64(text) == Utf8Decode(b64decode(text))

\* to_global_id(type, id)
to_global_id(type, id) == base64(type \o <<":">> \o Str(id))

\* A variant that splits at the last ':'.
from_global_id_SplitLast(gid) ==
    LET unbased_global_id == unbase64(gid)
        colons == {i \in DOMAIN unbased_global_id : unbased_global_id[i] = ":"}
        at == CHOOSE i \in colons : \A j \in colons : j <= i
    IN  IF colons = {} THEN [status |-> "ValueError"]
        ELSE [status |-> "ok",
              type |-> SubSeq(unbased_global_id, 1, at - 1),
              id |-> SubSeq(unbased_global_id, at + 1, Len(unbased_global_id))]

\* from_global_id(global_id): split(':', 1) cuts at the first ':'; without
\* one the unpacking of the single part fails.
from_global_id(gid) ==
    LET unbased_global_id == unbase64(gid)
        colons == {i \in DOMAIN unbased_global_id : unbased_global_id[i] = ":"}
        at == CHOOSE i \in colons : \A j \in colons : i <= j
    IN  IF colons = {} THEN [status |-> "ValueError"]
        ELSE [status |-> "ok",
              type |-> SubSeq(unbased_global_id, 1, at - 1),
              id |-> SubSeq(unbased_global_id, at + 1, Len(unbased_global_id))]

InitGlobalId ==
    /\ global_id_args \in [status : {"given"}, type : TypeNameStrings, id : Ids]
    /\ global_id = [status |-> "idle"]
    /\ resolved_global_id = [status |-> "idle"]
    /\ IdleExec /\ IdleTypes /\ IdleError

ToGlobalId ==
    /\ global_id_args.status = "given"
    /\ global_id.status = "idle"
    /\ global_id' = [status |-> "made",
                     value |-> to_global_id(global_id_args.type, global_id_args.id)]
    /\ UNCHANGED <<global_id_args, resolved_global_id>>
    /\ UNCHANGED <<execVars, typeVars, errorVars>>

FromGlobalId ==
    /\ global_id.status = "made"
    /\ resolved_global_id.status = "idle"
    /\ resolved_global_id' = from_global_id(global_id.value)
    /\ UNCHANGED <<global_id_args, global_id>>
    /\ UNCHANGED <<execVars, typeVars, errorVars>>

NextGlobalId == ToGlobalId \/ FromGlobalId

SpecGlobalId == InitGlobalId /\ [][NextGlobalId]_vars

(***************************************************************************)
(* Claims about global ids                                                 *)
(***************************************************************************)
\* C22: for any type name without ':' and any id convertible to string,
\* from_global_id(to_global_id(type_name, id)) returns (type_name, str(id)),
\* also when str(id) itself contains ':'.
C22_GlobalIdRoundTrip ==
    resolved_global_id.status # "idle" =>
        resolved_global_id = [status |-> "ok",
                              type |-> global_id_args.type,
                              id |-> Str(global_id_args.id)]

\* The round trip of an id that holds ':' was made.
C22_Witness ==
    /\ resolved_global_id.status = "ok"
    /\ global_id_args.id.kind = "str"
    /\ \E i \in DOMAIN global_id_args.id.value : global_id_args.id.value[i] = ":"
    /\ global_id_args.type # <<>>

====
